---------------------------- MODULE Spec2Model ----------------------------
(***************************************************************************)
(* Run scheduler, watchdog and completion paths of the Rockchip VPU        *)
(* driver (rockchip_vpu.c, rockchip_vpu_hw.c, rockchip_vpu_hw_vp8d.c),     *)
(* built with NO_BOILERPLATE_CLEANUP defined.                              *)
(*                                                                         *)
(* Four kernel execution contexts run concurrently:                        *)
(*   "client"  a V4L2 ioctl thread (serialised by vpu_mutex) queueing      *)
(*             buffers and calling rockchip_vpu_try_context                *)
(*   "irq"     the threaded interrupt handler vdpu_irq (IRQF_ONESHOT)      *)
(*   "wdog"    the delayed work rockchip_vpu_watchdog                      *)
(*   "pm"      the power-management thread calling suspend / resume        *)
(* suspend and resume are system-sleep callbacks (SET_SYSTEM_SLEEP_PM_OPS): *)
(* user tasks are frozen around them, so no ioctl runs between the entry   *)
(* of suspend and the return of resume; the interrupt thread and the       *)
(* watchdog work are kernel contexts and keep running.                     *)
(* Every step is one access to state shared outside irqlock, or a          *)
(* critical section of irqlock; the critical section of try_run is cut     *)
(* after the VPU_SUSPENDED test and before the store to current_ctx, the   *)
(* two points where the accesses other contexts make without the lock can  *)
(* fall in between.                                                        *)
(***************************************************************************)
EXTENDS Integers, Sequences, FiniteSets, TLC

(* ------------------------------ bounds --------------------------------- *)
\* source buffers, and destination buffers, the clients queue in total
MaxBufs == 2

\* the same, in the runs where buffers wait behind the Jobs
MaxBacklog == 3

\* Jobs dispatched in one run with two Sessions
MaxJobs == 2

\* largest low half-word of a header offset or size that is enumerated
MaxOffset == 20

\* largest macroblock_bit_offset that is enumerated
MaxBitOffset == 17

(* ----------------------------- constants ------------------------------- *)
Ctxs == {"A", "B"}
NULL == "NULL"
Procs == {"client", "irq", "wdog", "pm"}
Handlers == {"irq", "wdog"}
FREE == "free"
VB2_BUF_STATE_DONE == "DONE"
VB2_BUF_STATE_ERROR == "ERROR"

VARIABLES
    ready_ctxs,   \* dev->ready_ctxs, head first
    running,      \* VPU_RUNNING bit of dev->state
    suspended,    \* VPU_SUSPENDED bit of dev->state
    current_ctx,  \* dev->current_ctx
    src_queue,    \* ctx->src_queue, buffer ids, head first
    dst_queue,    \* ctx->dst_queue
    run,          \* ctx->run.src / ctx->run.dst (0 = never set)
    irqlock,      \* holder of dev->irqlock or FREE
    wd_pending,   \* dev->watchdog_work is queued on its timer
    dec_e,        \* INTERRUPT register: decoder enable (engine executing)
    dec_irq,      \* INTERRUPT register: decode-complete status bit
    irq_dis,      \* INTERRUPT register: interrupt disable bit
    irq_line,     \* interrupt asserted, handler thread not yet run
    power,        \* runtime-PM usage count taken by this driver
    src_sig,      \* per context, per source buffer: results passed to vb2_buffer_done
    dst_sig,      \* same for destination buffers
    pc,           \* position of each execution context
    lctx,         \* local `ctx' of try_context / vdpu_irq / watchdog / run_done
    tctx,         \* local `ctx' of rockchip_vpu_try_run
    asleep,       \* suspend() has returned and resume() was not called yet
    dispatched,   \* history: jobs bound by try_run, in order
    doneBy,       \* history: per job, results codec_ops->done was invoked with
    completed,    \* history: jobs for which a completion has cleared VPU_RUNNING
    ljob,         \* history: job bound by the try_run pass of a context
    hjob,         \* history: job a handler was triggered for
    hw_job,       \* history: job the engine is executing
    irq_job,      \* history: job whose completion raised the interrupt
    wd_job,       \* history: job that armed the pending watchdog
    hw_done,      \* history: jobs the engine finished (completion status set)
    freed,        \* contexts that rockchip_vpu_release has freed (kfree)
    frame_hdr,    \* ctx->run.vp8d.frame_hdr: the header the run hook is given
    hw_cfg        \* what the run hook computed from it for the engine

vars == <<ready_ctxs, running, suspended, current_ctx, src_queue, dst_queue,
          run, irqlock, wd_pending, dec_e, dec_irq, irq_dis, irq_line, power,
          src_sig, dst_sig, pc, lctx, tctx, asleep, dispatched, doneBy,
          completed, ljob, hjob, hw_job, irq_job, wd_job, hw_done, freed,
          frame_hdr, hw_cfg>>

sched == <<ready_ctxs, running, current_ctx, src_queue, dst_queue, run>>
hwregs == <<dec_e, dec_irq, irq_dis>>
bufs == <<src_sig, dst_sig>>
locals == <<lctx, tctx, ljob, hjob>>
joblog == <<dispatched, doneBy, completed, hw_done>>
hwjobs == <<hw_job, irq_job, wd_job>>
codec == <<frame_hdr, hw_cfg>>

\* the state of the scheduler, the engine and the handlers
device == <<ready_ctxs, running, suspended, current_ctx, src_queue, dst_queue,
            run, irqlock, wd_pending, dec_e, dec_irq, irq_dis, irq_line, power,
            src_sig, dst_sig, pc, lctx, tctx, asleep, dispatched, doneBy,
            completed, ljob, hjob, hw_job, irq_job, wd_job, hw_done, freed>>

\* no header given, nothing computed
NONE == [none |-> TRUE]

(* ------------------------------ helpers -------------------------------- *)
InList(s, x) == \E i \in 1..Len(s) : s[i] = x

Goto(p, l) == pc' = [pc EXCEPT ![p] = l]

\* a function returns: its locals die
Return(p) ==
    /\ pc' = [pc EXCEPT ![p] = "idle"]
    /\ lctx' = [lctx EXCEPT ![p] = NULL]
    /\ tctx' = [tctx EXCEPT ![p] = NULL]
    /\ ljob' = [ljob EXCEPT ![p] = 0]
    /\ hjob' = [hjob EXCEPT ![p] = 0]

\* buffers queued so far on context c, and on all contexts
QueuedOn(c) == Len(src_sig[c]) + Len(dst_sig[c])
Queued(sig) == Len(sig["A"]) + Len(sig["B"])

\* result a handler passes to codec_ops->done
Result(p) == IF p = "irq" THEN VB2_BUF_STATE_DONE ELSE VB2_BUF_STATE_ERROR

\* vb2_buffer_done on buffer id b of a per-buffer signal log (0: no buffer)
Signal(log, b, r) ==
    IF b \in 1..Len(log) THEN [log EXCEPT ![b] = Append(@, r)] ELSE log

(* ------------------------------- Init ---------------------------------- *)
\* the device after probe
DeviceInit ==
    /\ ready_ctxs = <<>>
    /\ running = FALSE
    /\ suspended = FALSE
    /\ current_ctx = NULL
    /\ src_queue = [c \in Ctxs |-> <<>>]
    /\ dst_queue = [c \in Ctxs |-> <<>>]
    /\ run = [c \in Ctxs |-> [src |-> 0, dst |-> 0]]
    /\ irqlock = FREE
    /\ wd_pending = FALSE
    /\ dec_e = FALSE
    /\ dec_irq = FALSE
    /\ irq_dis = FALSE
    /\ irq_line = FALSE
    /\ power = 0
    /\ src_sig = [c \in Ctxs |-> <<>>]
    /\ dst_sig = [c \in Ctxs |-> <<>>]
    /\ pc = [p \in Procs |-> "idle"]
    /\ lctx = [p \in Procs |-> NULL]
    /\ tctx = [p \in Procs |-> NULL]
    /\ asleep = FALSE
    /\ dispatched = <<>>
    /\ doneBy = <<>>
    /\ completed = {}
    /\ ljob = [p \in Procs |-> 0]
    /\ hjob = [p \in Procs |-> 0]
    /\ hw_job = 0
    /\ irq_job = 0
    /\ wd_job = 0
    /\ hw_done = {}
    /\ freed = {}

Init ==
    /\ DeviceInit
    /\ frame_hdr = NONE
    /\ hw_cfg = NONE

(* ------------------- buffer queueing (client thread) ------------------- *)
\* user tasks are frozen from the entry of suspend to the return of resume
Thawed == pc["pm"] = "idle" /\ ~asleep

\* the contexts are interchangeable: the one that queues first is called "A"
FirstUse(c) == c = "A" \/ QueuedOn("A") > 0

\* .buf_queue of the decoder queue ops: the buffer is linked on the
\* context's queue under irqlock, then rockchip_vpu_try_context is called.
buf_queue(c, q, n) ==
    /\ UNCHANGED <<codec, freed>>
    /\ pc["client"] = "idle"
    /\ Thawed
    /\ FirstUse(c)
    /\ c \notin freed
    /\ irqlock = FREE
    /\ \/ /\ q = "src"
          /\ Queued(src_sig) < n
          /\ src_sig' = [src_sig EXCEPT ![c] = Append(@, <<>>)]
          /\ src_queue' = [src_queue EXCEPT ![c] = Append(@, Len(src_sig[c]) + 1)]
          /\ UNCHANGED <<dst_sig, dst_queue>>
       \/ /\ q = "dst"
          /\ Queued(dst_sig) < n
          /\ dst_sig' = [dst_sig EXCEPT ![c] = Append(@, <<>>)]
          /\ dst_queue' = [dst_queue EXCEPT ![c] = Append(@, Len(dst_sig[c]) + 1)]
          /\ UNCHANGED <<src_sig, src_queue>>
    /\ lctx' = [lctx EXCEPT !["client"] = c]
    /\ Goto("client", "tc")
    /\ UNCHANGED <<ready_ctxs, running, suspended, current_ctx, run, irqlock,
                   wd_pending, hwregs, irq_line, power, tctx, ljob, hjob,
                   asleep, joblog, hwjobs>>

\* faulty variant: one non-empty queue is enough (|| for && at line 169)
try_context_locked_either_queue(rdy, c) ==
    IF InList(rdy, c)
    THEN rdy
    ELSE IF dst_queue[c] # <<>> \/ src_queue[c] # <<>>
         THEN Append(rdy, c)
         ELSE rdy

\* faulty variant: the context is linked at the head (list_add at line 170)
try_context_locked_add_head(rdy, c) ==
    IF InList(rdy, c)
    THEN rdy
    ELSE IF dst_queue[c] # <<>> /\ src_queue[c] # <<>>
         THEN <<c>> \o rdy
         ELSE rdy

\* faulty variant: the already-queued test of line 165 is dropped
try_context_locked_no_queued_test(rdy, c) ==
    IF dst_queue[c] # <<>> /\ src_queue[c] # <<>>
    THEN Append(rdy, c)
    ELSE rdy

\* __rockchip_vpu_try_context_locked: the ready list after the call
rockchip_vpu_try_context_locked(rdy, c) ==
    IF InList(rdy, c)
    THEN rdy
    ELSE IF dst_queue[c] # <<>> /\ src_queue[c] # <<>>
         THEN Append(rdy, c)
         ELSE rdy

\* rockchip_vpu_try_context: the locked section; try_run follows
rockchip_vpu_try_context ==
    /\ UNCHANGED <<codec, freed>>
    /\ pc["client"] = "tc"
    /\ irqlock = FREE
    /\ ready_ctxs' = rockchip_vpu_try_context_locked(ready_ctxs, lctx["client"])
    /\ Goto("client", "t_check")
    /\ UNCHANGED <<running, suspended, current_ctx, src_queue, dst_queue, run,
                   irqlock, wd_pending, hwregs, irq_line, power, bufs, locals,
                   asleep, joblog, hwjobs>>

(* ------------------------ rockchip_vpu_try_run ------------------------- *)
\* faulty variant: VPU_SUSPENDED is not tested
try_run_check_no_suspended_test(p) ==
    /\ UNCHANGED <<codec, freed>>
    /\ pc[p] = "t_check"
    /\ irqlock = FREE
    /\ IF ready_ctxs = <<>>
       THEN /\ Return(p)
            /\ UNCHANGED irqlock
       ELSE /\ Goto(p, "t_tas")
            /\ irqlock' = p
            /\ UNCHANGED locals
    /\ UNCHANGED <<sched, suspended, wd_pending, hwregs, irq_line, power, bufs,
                   asleep, joblog, hwjobs>>

\* lines 130-135: take irqlock, test the ready list and VPU_SUSPENDED
rockchip_vpu_try_run_check(p) ==
    /\ UNCHANGED <<codec, freed>>
    /\ pc[p] = "t_check"
    /\ irqlock = FREE
    /\ IF ready_ctxs = <<>> \/ suspended
       THEN /\ Return(p)
            /\ UNCHANGED irqlock
       ELSE /\ Goto(p, "t_tas")
            /\ irqlock' = p
            /\ UNCHANGED locals
    /\ UNCHANGED <<sched, suspended, wd_pending, hwregs, irq_line, power, bufs,
                   asleep, joblog, hwjobs>>

\* faulty variant: the last entry of each queue is taken (list_last_entry)
dequeue_run_locked_last(c) ==
    LET s == src_queue[c]
        d == dst_queue[c]
    IN [src  |-> IF s = <<>> THEN 0 ELSE s[Len(s)],
        dst  |-> IF d = <<>> THEN 0 ELSE d[Len(d)],
        srcq |-> IF s = <<>> THEN <<>> ELSE SubSeq(s, 1, Len(s) - 1),
        dstq |-> IF d = <<>> THEN <<>> ELSE SubSeq(d, 1, Len(d) - 1)]

\* __rockchip_vpu_dequeue_run_locked: first entry of each queue is unlinked
\* and bound to ctx->run
rockchip_vpu_dequeue_run_locked(c) ==
    [src  |-> IF src_queue[c] = <<>> THEN 0 ELSE Head(src_queue[c]),
     dst  |-> IF dst_queue[c] = <<>> THEN 0 ELSE Head(dst_queue[c]),
     srcq |-> IF src_queue[c] = <<>> THEN <<>> ELSE Tail(src_queue[c]),
     dstq |-> IF dst_queue[c] = <<>> THEN <<>> ELSE Tail(dst_queue[c])]

\* faulty variant: the context queued last is taken
NextReady_last(rdy) == rdy[Len(rdy)]

\* line 144: ctx = list_entry(dev->ready_ctxs.next, ...)
NextReady(rdy) == Head(rdy)

\* lines 137-147: test_and_set_bit(VPU_RUNNING), unlink the head context,
\* dequeue its buffers
rockchip_vpu_try_run_tas(p, m) ==
    /\ UNCHANGED <<codec, freed>>
    /\ pc[p] = "t_tas"
    /\ irqlock = p
    /\ running \/ Len(dispatched) < m
    /\ IF running
       THEN /\ irqlock' = FREE
            /\ Return(p)
            /\ UNCHANGED <<sched, joblog>>
       ELSE LET c == NextReady(ready_ctxs)
                d == rockchip_vpu_dequeue_run_locked(c)
            IN /\ running' = TRUE
               /\ ready_ctxs' = SelectSeq(ready_ctxs, LAMBDA x : x # c)
               /\ src_queue' = [src_queue EXCEPT ![c] = d.srcq]
               /\ dst_queue' = [dst_queue EXCEPT ![c] = d.dstq]
               /\ run' = [run EXCEPT ![c] = [src |-> d.src, dst |-> d.dst]]
               /\ tctx' = [tctx EXCEPT ![p] = c]
               /\ dispatched' = Append(dispatched,
                                       [ctx |-> c, src |-> d.src, dst |-> d.dst])
               /\ doneBy' = Append(doneBy, <<>>)
               /\ ljob' = [ljob EXCEPT ![p] = Len(dispatched) + 1]
               /\ Goto(p, "t_cur")
               /\ UNCHANGED <<irqlock, current_ctx, lctx, hjob, completed, hw_done>>
    /\ UNCHANGED <<suspended, wd_pending, hwregs, irq_line, power, bufs,
                   asleep, hwjobs>>

\* lines 149-152: dev->current_ctx = ctx, unlock
rockchip_vpu_try_run_cur(p) ==
    /\ UNCHANGED <<codec, freed>>
    /\ pc[p] = "t_cur"
    /\ irqlock = p
    /\ current_ctx' = tctx[p]
    /\ irqlock' = FREE
    /\ Goto(p, "t_run")
    /\ UNCHANGED <<ready_ctxs, running, suspended, src_queue, dst_queue, run,
                   wd_pending, hwregs, irq_line, power, bufs, locals,
                   asleep, joblog, hwjobs>>

(* ----------------------- rockchip_vpu_vp8d_run ------------------------- *)
\* rockchip_vpu_power_on: pm_runtime_get_sync
rockchip_vpu_power_on(n) == n + 1

\* rockchip_vpu_power_off: pm_runtime_put_autosuspend
rockchip_vpu_power_off(n) == n - 1

\* rockchip_vpu.c lines 154-156: the pre-run hook, then the run hook;
\* vp8d_run lines 656-670: power on, every decoder register is written with 0
rockchip_vpu_run(p) ==
    /\ UNCHANGED <<codec, freed>>
    /\ pc[p] = "t_run"
    /\ power' = rockchip_vpu_power_on(power)
    /\ dec_e' = FALSE
    /\ dec_irq' = FALSE
    /\ irq_dis' = FALSE
    /\ hw_job' = 0
    /\ Goto(p, "r_arm")
    /\ UNCHANGED <<sched, suspended, irqlock, wd_pending, irq_line, bufs,
                   locals, asleep, joblog, irq_job, wd_job>>

\* line 761: schedule_delayed_work (no effect on a work already pending)
rockchip_vpu_vp8d_run_arm(p) ==
    /\ UNCHANGED <<codec, freed>>
    /\ pc[p] = "r_arm"
    /\ wd_pending' = TRUE
    /\ wd_job' = IF wd_pending THEN wd_job ELSE ljob[p]
    /\ Goto(p, "r_start")
    /\ UNCHANGED <<sched, suspended, irqlock, hwregs, irq_line, power, bufs,
                   locals, asleep, joblog, hw_job, irq_job>>

\* lines 763-768: read-modify-write setting the decoder enable bit
rockchip_vpu_vp8d_run_start(p) ==
    /\ UNCHANGED <<codec, freed>>
    /\ pc[p] = "r_start"
    /\ dec_e' = TRUE
    /\ hw_job' = ljob[p]
    /\ Return(p)
    /\ UNCHANGED <<sched, suspended, irqlock, wd_pending, dec_irq, irq_dis,
                   irq_line, power, bufs, asleep, joblog, irq_job, wd_job>>

(* ------------------------------ hardware ------------------------------- *)
\* the engine finishes the frame: the enable bit self-clears, the status bit
\* is set and the interrupt is raised unless disabled
HwComplete ==
    /\ UNCHANGED <<codec, freed>>
    /\ dec_e
    /\ dec_e' = FALSE
    /\ dec_irq' = TRUE
    /\ irq_line' = (irq_line \/ ~irq_dis)
    /\ irq_job' = IF irq_dis THEN irq_job ELSE hw_job
    /\ hw_job' = 0
    /\ hw_done' = hw_done \cup {hw_job}
    /\ UNCHANGED <<sched, suspended, irqlock, wd_pending, irq_dis, power, bufs,
                   pc, locals, asleep, dispatched, doneBy, completed, wd_job>>

(* ------------------------------ vdpu_irq ------------------------------- *)
\* line 91: ctx = vpu->current_ctx
vdpu_irq ==
    /\ UNCHANGED <<codec, freed>>
    /\ pc["irq"] = "idle"
    /\ irq_line
    /\ irq_line' = FALSE
    /\ lctx' = [lctx EXCEPT !["irq"] = current_ctx]
    /\ hjob' = [hjob EXCEPT !["irq"] = irq_job]
    /\ irq_job' = 0
    /\ Goto("irq", "i_hook")
    /\ UNCHANGED <<sched, suspended, irqlock, wd_pending, hwregs, power, bufs,
                   tctx, ljob, asleep, joblog, hw_job, wd_job>>

\* faulty variant: the return value of the irq hook is ignored
vdpu_irq_ignores_status ==
    /\ UNCHANGED <<codec, freed>>
    /\ pc["irq"] = "i_hook"
    /\ IF lctx["irq"] = NULL
       THEN /\ Goto("irq", "oops")
            /\ UNCHANGED <<hwregs, locals, hw_job>>
       ELSE /\ dec_e' = FALSE
            /\ dec_irq' = FALSE
            /\ irq_dis' = FALSE
            /\ hw_job' = 0
            /\ Goto("irq", "i_cancel")
            /\ UNCHANGED locals
    /\ UNCHANGED <<sched, suspended, irqlock, wd_pending, irq_line, power,
                   bufs, asleep, joblog, irq_job, wd_job>>

\* line 93 and rockchip_vdpu_irq: the status word is read and written with 0;
\* a NULL ctx is dereferenced (oops)
rockchip_vdpu_irq ==
    /\ UNCHANGED <<codec, freed>>
    /\ pc["irq"] = "i_hook"
    /\ IF lctx["irq"] = NULL
       THEN /\ Goto("irq", "oops")
            /\ UNCHANGED <<hwregs, locals, hw_job>>
       ELSE /\ dec_e' = FALSE
            /\ dec_irq' = FALSE
            /\ irq_dis' = FALSE
            /\ hw_job' = 0
            /\ IF dec_irq
               THEN Goto("irq", "i_cancel") /\ UNCHANGED locals
               ELSE Return("irq")
    /\ UNCHANGED <<sched, suspended, irqlock, wd_pending, irq_line, power,
                   bufs, asleep, joblog, irq_job, wd_job>>

\* cancel_delayed_work: a pending work is removed; a handler that already
\* runs is not waited for
cancel_delayed_work(pending) == FALSE

\* lines 94-95: power off, cancel the watchdog
vdpu_irq_cancel ==
    /\ UNCHANGED <<codec, freed>>
    /\ pc["irq"] = "i_cancel"
    /\ power' = rockchip_vpu_power_off(power)
    /\ wd_pending' = cancel_delayed_work(wd_pending)
    /\ wd_job' = IF wd_pending' THEN wd_job ELSE 0
    /\ Goto("irq", "d_src")
    /\ UNCHANGED <<sched, suspended, irqlock, hwregs, irq_line, bufs,
                   locals, asleep, joblog, hw_job, irq_job>>

(* ----------------------- rockchip_vpu_watchdog ------------------------- *)
\* the timer runs 2000 ms from the schedule_delayed_work call of line 761:
\* it does not expire before the run hook that armed it has written the
\* enable bit a few register accesses later
TimerMayExpire == \A p \in Procs : ~(pc[p] = "r_start" /\ ljob[p] = wd_job)

\* the timer expires; line 107: ctx = vpu->current_ctx
rockchip_vpu_watchdog ==
    /\ UNCHANGED <<codec, freed>>
    /\ pc["wdog"] = "idle"
    /\ wd_pending
    /\ TimerMayExpire
    /\ wd_pending' = FALSE
    /\ lctx' = [lctx EXCEPT !["wdog"] = current_ctx]
    /\ hjob' = [hjob EXCEPT !["wdog"] = wd_job]
    /\ wd_job' = 0
    /\ Goto("wdog", "w_reset")
    /\ UNCHANGED <<sched, suspended, irqlock, hwregs, irq_line, power, bufs,
                   tctx, ljob, asleep, joblog, hw_job, irq_job>>

\* lines 110-118 and rockchip_vpu_dec_reset: under irqlock the INTERRUPT
\* word is written with only the interrupt-disable bit set; then power off
rockchip_vpu_dec_reset ==
    /\ UNCHANGED <<codec, freed>>
    /\ pc["wdog"] = "w_reset"
    /\ irqlock = FREE
    /\ IF lctx["wdog"] = NULL
       THEN /\ Goto("wdog", "oops")
            /\ irqlock' = "wdog"
            /\ UNCHANGED <<hwregs, hw_job, power>>
       ELSE /\ dec_e' = FALSE
            /\ dec_irq' = FALSE
            /\ irq_dis' = TRUE
            /\ hw_job' = 0
            /\ power' = rockchip_vpu_power_off(power)
            /\ Goto("wdog", "d_src")
            /\ UNCHANGED irqlock
    /\ UNCHANGED <<sched, suspended, wd_pending, irq_line, bufs, locals,
                   asleep, joblog, irq_job, wd_job>>

(* ------------------------ rockchip_vpu_run_done ------------------------ *)
\* lines 181-191: codec_ops->done is entered, the run_done hook runs, then
\* vb2_buffer_done(ctx->run.src, result)
rockchip_vpu_run_done_src(p) ==
    /\ UNCHANGED <<codec, freed>>
    /\ pc[p] = "d_src"
    /\ doneBy' = [doneBy EXCEPT ![hjob[p]] = Append(@, Result(p))]
    /\ src_sig' = [src_sig EXCEPT ![lctx[p]] = Signal(@, run[lctx[p]].src, Result(p))]
    /\ Goto(p, "d_dst")
    /\ UNCHANGED <<sched, suspended, irqlock, wd_pending, hwregs, irq_line,
                   power, dst_sig, locals, asleep, dispatched, completed,
                   hw_done, hwjobs>>

\* line 192: vb2_buffer_done(ctx->run.dst, result)
rockchip_vpu_run_done_dst(p) ==
    /\ UNCHANGED <<codec, freed>>
    /\ pc[p] = "d_dst"
    /\ dst_sig' = [dst_sig EXCEPT ![lctx[p]] = Signal(@, run[lctx[p]].dst, Result(p))]
    /\ Goto(p, "d_clear")
    /\ UNCHANGED <<sched, suspended, irqlock, wd_pending, hwregs, irq_line,
                   power, src_sig, locals, asleep, joblog, hwjobs>>

\* faulty variant: wake_up_all is not called
run_done_clear_no_wake(p) ==
    /\ UNCHANGED <<codec, freed>>
    /\ pc[p] = "d_clear"
    /\ current_ctx' = NULL
    /\ Goto(p, "d_lock")
    /\ UNCHANGED <<ready_ctxs, running, suspended, src_queue, dst_queue, run,
                   irqlock, wd_pending, hwregs, irq_line, power, bufs, locals,
                   asleep, joblog, hwjobs>>

\* lines 194-195: dev->current_ctx = NULL (irqlock not held), then
\* wake_up_all(&dev->run_wq)
rockchip_vpu_run_done_clear(p) ==
    /\ UNCHANGED <<codec, freed>>
    /\ pc[p] = "d_clear"
    /\ current_ctx' = NULL
    /\ pc' = [q \in Procs |->
                IF q = p THEN "d_lock"
                ELSE IF q = "pm" /\ pc[q] = "s_sleep" THEN "s_check"
                ELSE pc[q]]
    /\ UNCHANGED <<ready_ctxs, running, suspended, src_queue, dst_queue, run,
                   irqlock, wd_pending, hwregs, irq_line, power, bufs, locals,
                   asleep, joblog, hwjobs>>

\* faulty variant: the completion returns without calling try_run
run_done_lock_no_try_run(p) ==
    /\ UNCHANGED <<codec, freed>>
    /\ pc[p] = "d_lock"
    /\ irqlock = FREE
    /\ ready_ctxs' = rockchip_vpu_try_context_locked(ready_ctxs, lctx[p])
    /\ running' = FALSE
    /\ completed' = completed \cup {hjob[p]}
    /\ Return(p)
    /\ UNCHANGED <<suspended, current_ctx, src_queue, dst_queue, run, irqlock,
                   wd_pending, hwregs, irq_line, power, bufs, asleep,
                   dispatched, doneBy, hw_done, hwjobs>>

\* lines 197-205: under irqlock the context is re-added when it still has
\* buffers in both queues and VPU_RUNNING is cleared; then try_run is called
rockchip_vpu_run_done_lock(p) ==
    /\ UNCHANGED <<codec, freed>>
    /\ pc[p] = "d_lock"
    /\ irqlock = FREE
    /\ ready_ctxs' = rockchip_vpu_try_context_locked(ready_ctxs, lctx[p])
    /\ running' = FALSE
    /\ completed' = completed \cup {hjob[p]}
    /\ Goto(p, "t_check")
    /\ UNCHANGED <<suspended, current_ctx, src_queue, dst_queue, run, irqlock,
                   wd_pending, hwregs, irq_line, power, bufs, locals, asleep,
                   dispatched, doneBy, hw_done, hwjobs>>

(* -------------------------- suspend / resume --------------------------- *)
\* line 790: set_bit(VPU_SUSPENDED) (irqlock not taken)
rockchip_vpu_suspend ==
    /\ UNCHANGED <<codec, freed>>
    /\ pc["pm"] = "idle"
    /\ ~asleep
    /\ pc["client"] = "idle"
    /\ suspended' = TRUE
    /\ Goto("pm", "s_check")
    /\ UNCHANGED <<sched, irqlock, wd_pending, hwregs, irq_line, power, bufs,
                   locals, asleep, joblog, hwjobs>>

\* line 791: wait_event(run_wq, current_ctx == NULL): test, sleep until woken
rockchip_vpu_suspend_wait ==
    /\ UNCHANGED <<codec, freed>>
    /\ pc["pm"] = "s_check"
    /\ IF current_ctx = NULL
       THEN /\ Goto("pm", "idle")
            /\ asleep' = TRUE
       ELSE /\ Goto("pm", "s_sleep")
            /\ UNCHANGED asleep
    /\ UNCHANGED <<sched, suspended, irqlock, wd_pending, hwregs, irq_line,
                   power, bufs, locals, joblog, hwjobs>>

\* faulty variant: resume returns without calling try_run
resume_no_try_run ==
    /\ UNCHANGED <<codec, freed>>
    /\ pc["pm"] = "idle"
    /\ asleep
    /\ suspended' = FALSE
    /\ asleep' = FALSE
    /\ UNCHANGED <<pc, sched, irqlock, wd_pending, hwregs, irq_line, power,
                   bufs, locals, joblog, hwjobs>>

\* line 800: clear_bit(VPU_SUSPENDED); line 801 calls try_run
rockchip_vpu_resume ==
    /\ UNCHANGED <<codec, freed>>
    /\ pc["pm"] = "idle"
    /\ asleep
    /\ suspended' = FALSE
    /\ asleep' = FALSE
    /\ Goto("pm", "t_check")
    /\ UNCHANGED <<sched, irqlock, wd_pending, hwregs, irq_line, power, bufs,
                   locals, joblog, hwjobs>>

(* ------------------------- rockchip_vpu_release ------------------------ *)
\* buffers bs of a signal log are handed back with result r
SignalAll(log, bs, r) ==
    [b \in 1..Len(log) |->
        IF \E n \in 1..Len(bs) : bs[n] = b THEN Append(log[b], r) ELSE log[b]]

\* lines 477-478: vb2_queue_release stops streaming; the stop_streaming
\* callback is in a file that is not given: it is taken to unlink the
\* context from the ready list and to hand its queued buffers back
rockchip_vpu_release(c) ==
    /\ UNCHANGED codec
    /\ pc["client"] = "idle"
    /\ Thawed
    /\ QueuedOn(c) > 0
    /\ c \notin freed
    /\ irqlock = FREE
    /\ ready_ctxs' = SelectSeq(ready_ctxs, LAMBDA x : x # c)
    /\ src_sig' = [src_sig EXCEPT ![c] = SignalAll(@, src_queue[c], VB2_BUF_STATE_ERROR)]
    /\ dst_sig' = [dst_sig EXCEPT ![c] = SignalAll(@, dst_queue[c], VB2_BUF_STATE_ERROR)]
    /\ src_queue' = [src_queue EXCEPT ![c] = <<>>]
    /\ dst_queue' = [dst_queue EXCEPT ![c] = <<>>]
    /\ lctx' = [lctx EXCEPT !["client"] = c]
    /\ Goto("client", "rel_wait")
    /\ UNCHANGED <<running, suspended, current_ctx, run, irqlock, wd_pending,
                   hwregs, irq_line, power, tctx, ljob, hjob, asleep, joblog,
                   hwjobs, freed>>

\* the Job of context c, if any, has been completed
JobsCompleted(c) ==
    /\ current_ctx # c
    /\ \A j \in 1..Len(dispatched) : dispatched[j].ctx = c => j \in completed

\* lines 478-486: the release has waited for the Job of the context to be
\* completed; kfree(ctx)
rockchip_vpu_release_free ==
    /\ UNCHANGED codec
    /\ pc["client"] = "rel_wait"
    /\ JobsCompleted(lctx["client"])
    /\ freed' = freed \cup {lctx["client"]}
    /\ Return("client")
    /\ UNCHANGED <<sched, suspended, irqlock, wd_pending, hwregs, irq_line,
                   power, bufs, asleep, joblog, hwjobs>>

(* ------------------------------- Next ---------------------------------- *)
\* every step but the queueing of a new buffer; at most m Jobs are dispatched
Step(m) ==
    \/ rockchip_vpu_try_context
    \/ \E p \in Procs : rockchip_vpu_try_run_check(p)
    \/ \E p \in Procs : rockchip_vpu_try_run_tas(p, m)
    \/ \E p \in Procs : rockchip_vpu_try_run_cur(p)
    \/ \E p \in Procs : rockchip_vpu_run(p)
    \/ \E p \in Procs : rockchip_vpu_vp8d_run_arm(p)
    \/ \E p \in Procs : rockchip_vpu_vp8d_run_start(p)
    \/ HwComplete
    \/ vdpu_irq
    \/ rockchip_vdpu_irq
    \/ vdpu_irq_cancel
    \/ rockchip_vpu_watchdog
    \/ rockchip_vpu_dec_reset
    \/ \E p \in Handlers : rockchip_vpu_run_done_src(p)
    \/ \E p \in Handlers : rockchip_vpu_run_done_dst(p)
    \/ \E p \in Handlers : rockchip_vpu_run_done_clear(p)
    \/ \E p \in Handlers : rockchip_vpu_run_done_lock(p)
    \/ rockchip_vpu_suspend
    \/ rockchip_vpu_suspend_wait
    \/ rockchip_vpu_resume

Next ==
    \/ \E c \in Ctxs, q \in {"src", "dst"} : buf_queue(c, q, MaxBufs)
    \/ Step(MaxJobs)

Spec == Init /\ [][Next]_vars

\* the same program with clients that close their Sessions
NextRelease ==
    \/ Next
    \/ \E c \in Ctxs : rockchip_vpu_release(c)
    \/ rockchip_vpu_release_free

SpecRelease == Init /\ [][NextRelease]_vars

\* the same program with clients that queue buffers beyond those the
\* dispatched Jobs consume
NextBacklog ==
    \/ \E c \in Ctxs, q \in {"src", "dst"} : buf_queue(c, q, MaxBacklog)
    \/ Step(MaxJobs)

SpecBacklog == Init /\ [][NextBacklog]_vars

\* the same program with one Session streaming: every queued pair of
\* buffers becomes a Job
NextOneSession ==
    \/ \E q \in {"src", "dst"} : buf_queue("A", q, MaxBacklog)
    \/ Step(MaxBacklog)

SpecOneSession == Init /\ [][NextOneSession]_vars

\* the steps of process p that the scheduler of the machine takes for it once
\* it is in them: a thread inside a driver function runs on, an interrupt
\* that is raised is served, a delayed work that is pending expires, a
\* suspended system is resumed. Queueing a buffer, starting a suspend and the
\* engine finishing a frame are not among them.
ProcStep(p, m) ==
    \/ p = "client" /\ rockchip_vpu_try_context
    \/ rockchip_vpu_try_run_check(p)
    \/ rockchip_vpu_try_run_tas(p, m)
    \/ rockchip_vpu_try_run_cur(p)
    \/ rockchip_vpu_run(p)
    \/ rockchip_vpu_vp8d_run_arm(p)
    \/ rockchip_vpu_vp8d_run_start(p)
    \/ p = "irq" /\ (vdpu_irq \/ rockchip_vdpu_irq \/ vdpu_irq_cancel)
    \/ p = "wdog" /\ (rockchip_vpu_watchdog \/ rockchip_vpu_dec_reset)
    \/ p \in Handlers /\ rockchip_vpu_run_done_src(p)
    \/ p \in Handlers /\ rockchip_vpu_run_done_dst(p)
    \/ p \in Handlers /\ rockchip_vpu_run_done_clear(p)
    \/ p \in Handlers /\ rockchip_vpu_run_done_lock(p)
    \/ p = "pm" /\ (rockchip_vpu_suspend_wait \/ rockchip_vpu_resume)

\* the program under a fair scheduler; irqlock is a queued spinlock, so a
\* process that waits for it gets it (strong fairness)
SpecFair ==
    Init /\ [][NextOneSession]_vars
    /\ \A p \in Procs : SF_vars(ProcStep(p, MaxBacklog))

\* the two-Session program under the same fair scheduler
SpecFairSessions ==
    Init /\ [][Next]_vars /\ \A p \in Procs : SF_vars(ProcStep(p, MaxJobs))

(* --------------------- u32 arithmetic of the codec --------------------- *)
\* a u32 is held as <<high half-word, low half-word>>
Limb == 65536

\* #define DEC_8190_ALIGN_MASK 0x07U
DEC_8190_ALIGN_MASK == 7

U32(n) == <<n \div Limb, n % Limb>>

\* a + b, a - b on u32: the result wraps
Add32(a, b) ==
    LET l == a[2] + b[2]
        h == a[1] + b[1] + (l \div Limb)
    IN <<h % Limb, l % Limb>>

Sub32(a, b) ==
    LET l == a[2] - b[2]
        h == a[1] - b[1] - (IF l < 0 THEN 1 ELSE 0)
    IN <<(h + Limb) % Limb, (l + Limb) % Limb>>

\* a * k, a / k on u32 for a small k: the product wraps
Mul32(a, k) ==
    LET l == a[2] * k
        h == a[1] * k + (l \div Limb)
    IN <<h % Limb, l % Limb>>

Div32(a, k) == <<a[1] \div k, ((a[1] % k) * Limb + a[2]) \div k>>

\* a & DEC_8190_ALIGN_MASK
AlignRest(a) == <<0, a[2] % (DEC_8190_ALIGN_MASK + 1)>>

\* faulty variant: the address is aligned to 4 bytes
AlignDown_mask3(a) == <<a[1], a[2] - (a[2] % 4)>>

\* a & (~DEC_8190_ALIGN_MASK)
AlignDown(a) == <<a[1], a[2] - (a[2] % (DEC_8190_ALIGN_MASK + 1))>>

(* ---------------------- rockchip_vp8d_cfg_parts ------------------------ *)
\* lines 389-390: bit offset of the macroblock data from the buffer start
mb_offset_bits(hdr) ==
    Add32(Add32(Mul32(hdr.first_part_offset, 8), hdr.macroblock_bit_offset),
          U32(8))

\* line 391
mb_offset_bytes(hdr) == Div32(mb_offset_bits(hdr), 8)

\* faulty variant: the length does not count the bytes before the data start
cfg_parts_no_rest(hdr) ==
    [ctrl_part_offset |-> AlignDown(mb_offset_bytes(hdr)),
     strm1_start_bit |->
        Sub32(mb_offset_bits(hdr), Mul32(AlignDown(mb_offset_bytes(hdr)), 8)),
     stream1_len |->
        Sub32(hdr.first_part_size,
              Sub32(mb_offset_bytes(hdr), hdr.first_part_offset))]

\* lines 392-412: the control-partition values written to the registers
\* (the base address is the aligned offset plus the buffer's device address)
cfg_parts(hdr) ==
    [ctrl_part_offset |-> AlignDown(mb_offset_bytes(hdr)),
     strm1_start_bit |->
        Sub32(mb_offset_bits(hdr), Mul32(AlignDown(mb_offset_bytes(hdr)), 8)),
     stream1_len |->
        Add32(Sub32(hdr.first_part_size,
                    Sub32(mb_offset_bytes(hdr), hdr.first_part_offset)),
              AlignRest(mb_offset_bytes(hdr)))]

\* header values given by the client: small ones, and ones at which the u32
\* products wrap
HdrOffsets ==
    {<<h, l>> : h \in {0, 8191, 8192, Limb - 1},
                l \in (0..MaxOffset) \cup ((Limb - 8)..(Limb - 1))}

HdrBitOffsets == {U32(n) : n \in 0..MaxBitOffset} \cup {<<Limb - 1, Limb - 1>>}

HdrSizes == {U32(0), U32(MaxOffset), <<Limb - 1, Limb - 8>>, <<Limb - 1, Limb - 1>>}

PartsInit ==
    /\ DeviceInit
    /\ frame_hdr \in [first_part_offset : HdrOffsets,
                      macroblock_bit_offset : HdrBitOffsets,
                      first_part_size : HdrSizes]
    /\ hw_cfg = NONE

rockchip_vp8d_cfg_parts ==
    /\ hw_cfg = NONE
    /\ hw_cfg' = cfg_parts(frame_hdr)
    /\ UNCHANGED <<frame_hdr, device>>

SpecCfgParts == PartsInit /\ [][rockchip_vp8d_cfg_parts]_vars

(* ------------- stream addresses of rockchip_vp8d_cfg_parts ------------- *)
\* the largest number of DCT partitions of a header
MaxDctParts == 4

\* lines 376-450: every value the function writes, for a header and the
\* device address src_dma of the source buffer (line 376); the DCT
\* partitions are numbered from 0 as in the loops of lines 424 and 439
cfg_parts_streams(hdr, src_dma) ==
    LET dct_size_part_size == Mul32(Sub32(U32(hdr.num_dct_parts), U32(1)), 3)
        dct_part_offset == Add32(hdr.first_part_offset, hdr.first_part_size)
        RECURSIVE count(_)
        count(i) == IF i = 0 THEN U32(0)
                    ELSE Add32(count(i - 1), hdr.dct_part_sizes[i - 1])
        byte_offset(i) == Add32(Add32(dct_part_offset, dct_size_part_size), count(i))
    IN [ctrl_part |-> Add32(AlignDown(mb_offset_bytes(hdr)), src_dma),
        strm1_start_bit |-> cfg_parts(hdr).strm1_start_bit,
        stream1_len |-> cfg_parts(hdr).stream1_len,
        coeffs_part_am |-> Sub32(U32(hdr.num_dct_parts), U32(1)),
        stream_len |-> Add32(Add32(count(hdr.num_dct_parts), dct_size_part_size),
                             AlignRest(dct_part_offset)),
        addr_str |-> [i \in 0..(hdr.num_dct_parts - 1) |->
                         AlignDown(Add32(byte_offset(i), src_dma))],
        strm_start_bit |-> [i \in 0..(hdr.num_dct_parts - 1) |->
                               Mul32(AlignRest(byte_offset(i)), 8)]]

\* device addresses of the source buffer: aligned to a page, to 8 bytes, not
\* aligned, and close to the end of the 32-bit address space
SrcDmas == {<<4096, 0>>, <<4096, 8>>, <<4096, 4>>, <<4096, 1>>, <<Limb - 1, Limb - 16>>}

\* the partition counts of VP8 (line 359) and the partition sizes
DctCounts == {n \in {1, 2, 4, 8} : n <= MaxDctParts}
DctSizes == {U32(0), U32(5), U32(8)}

StreamHdrs ==
    UNION {[first_part_offset : {U32(0), U32(3), U32(10)},
            macroblock_bit_offset : {U32(0), U32(5), U32(64)},
            first_part_size : {U32(0), U32(7), U32(16)},
            num_dct_parts : {n},
            dct_part_sizes : [0..(n - 1) -> DctSizes],
            src_dma : SrcDmas] : n \in DctCounts}

StreamsInit ==
    /\ DeviceInit
    /\ frame_hdr \in StreamHdrs
    /\ hw_cfg = NONE

\* rockchip_vp8d_cfg_parts on the source buffer of the Job
rockchip_vp8d_cfg_parts_streams ==
    /\ hw_cfg = NONE
    /\ hw_cfg' = cfg_parts_streams(frame_hdr, frame_hdr.src_dma)
    /\ UNCHANGED <<frame_hdr, device>>

SpecCfgStreams == StreamsInit /\ [][rockchip_vp8d_cfg_parts_streams]_vars

(* ------------ slots and sizes touched by rockchip_vp8d_cfg_parts -------- *)
\* a slot of rk_regs_value: the name of the register and the index added to it
Slot(name, i) == <<name, i>>

\* lines 399-412 and 430-437: the slots written once per run
FixedPartSlots ==
    {Slot("VDPU_REG_VP8_ADDR_CTRL_PART", 0),
     Slot("VDPU_REG_DEC_CTRL2_STRM1_START_BIT", 0),
     Slot("VDPU_REG_DEC_CTRL6_STREAM1_LEN", 0),
     Slot("VDPU_REG_DEC_CTRL6_COEFFS_PART_AM", 0),
     Slot("VDPU_REG_DEC_CTRL3_STREAM_LEN", 0)}

\* lines 424-425: the loop that adds up dct_part_sizes[i], from index i on
RECURSIVE dct_len_loop(_, _, _)
dct_len_loop(hdr, i, reads) ==
    IF i < hdr.num_dct_parts
    THEN dct_len_loop(hdr, i + 1, reads \cup {i})
    ELSE reads

\* faulty variant: the loop runs once more
RECURSIVE dct_addr_loop_inclusive(_, _, _)
dct_addr_loop_inclusive(hdr, i, acc) ==
    IF i <= hdr.num_dct_parts
    THEN dct_addr_loop_inclusive(hdr, i + 1,
            [reads |-> acc.reads \cup {i},
             writes |-> acc.writes
                           \cup {Slot("VDPU_REG_ADDR_STR", i),
                                 Slot("VDPU_REG_DEC_CTRL2_STRM_START_BIT", i)}])
    ELSE acc

\* lines 439-452: the loop that writes the address and the start bit of
\* partition i and then reads dct_part_sizes[i], from index i on
RECURSIVE dct_addr_loop(_, _, _)
dct_addr_loop(hdr, i, acc) ==
    IF i < hdr.num_dct_parts
    THEN dct_addr_loop(hdr, i + 1,
            [reads |-> acc.reads \cup {i},
             writes |-> acc.writes
                           \cup {Slot("VDPU_REG_ADDR_STR", i),
                                 Slot("VDPU_REG_DEC_CTRL2_STRM_START_BIT", i)}])
    ELSE acc

\* the indices of dct_part_sizes read and the slots written by one call
cfg_parts_access(hdr) ==
    dct_addr_loop(hdr, 0,
        [reads |-> dct_len_loop(hdr, 0, {}), writes |-> FixedPartSlots])

\* headers of every partition count of VP8, each with partitions of one size
AccessHdrs ==
    UNION {[first_part_offset : {U32(0), U32(3), U32(10)},
            macroblock_bit_offset : {U32(0), U32(5), U32(64)},
            first_part_size : {U32(0), U32(7), U32(16)},
            num_dct_parts : {n},
            dct_part_sizes : {[i \in 0..7 |-> sz] : sz \in DctSizes},
            src_dma : SrcDmas] : n \in {1, 2, 4, 8}}

AccessInit ==
    /\ DeviceInit
    /\ frame_hdr \in AccessHdrs
    /\ hw_cfg = NONE

rockchip_vp8d_cfg_parts_access ==
    /\ hw_cfg = NONE
    /\ hw_cfg' = cfg_parts_access(frame_hdr)
    /\ UNCHANGED <<frame_hdr, device>>

SpecCfgAccess == AccessInit /\ [][rockchip_vp8d_cfg_parts_access]_vars

(* --------------- loop filter and quantizer (run hook) ------------------ *)
\* a signed value passed as the u32 argument of vp8d_write_regs_value
ToU32(v) == IF v >= 0 THEN U32(v) ELSE Sub32(U32(0), U32(0 - v))

\* a value stored into the __s8 local reg_value
ToS8(v) == ((v + 128) % 256) - 128

\* faulty variant: the lower bound is not applied
clamp_upper_only(v, lo, hi) == IF v > hi THEN hi ELSE v

\* clamp(val, lo, hi) of the kernel: min(max(val, lo), hi)
clamp(v, lo, hi) == IF v < lo THEN lo ELSE IF v > hi THEN hi ELSE v

\* the slots name + 0 .. name + 3 with the values val[0] .. val[3]
Slots4(name, val) ==
    [sl \in {Slot(name, i) : i \in 0..3} |-> ToU32(val[sl[2]])]

\* lines 243-283: the slots written by rockchip_vp8d_cfg_lf and their values
cfg_lf(hdr) ==
    (IF ~hdr.sgmnt_enabled
     THEN Slot("VDPU_REG_REF_PIC_LF_LEVEL_0", 0) :> ToU32(hdr.level)
     ELSE IF hdr.segment_feature_mode # 0
     THEN Slots4("VDPU_REG_REF_PIC_LF_LEVEL_0", hdr.lf_update)
     ELSE Slots4("VDPU_REG_REF_PIC_LF_LEVEL_0",
                 [i \in 0..3 |-> clamp(hdr.level + hdr.lf_update[i], 0, 63)]))
    @@ (Slot("VDPU_REG_REF_PIC_FILT_SHARPNESS", 0) :> ToU32(hdr.sharpness_level))
    @@ (IF hdr.type # 0
        THEN Slot("VDPU_REG_REF_PIC_FILT_TYPE_E", 0) :> U32(1)
        ELSE <<>>)
    @@ (IF hdr.adj_enable
        THEN Slots4("VDPU_REG_FILT_MB_ADJ_0",
                    [i \in 0..3 |-> ToS8(hdr.mb_mode_delta_magnitude[i])])
             @@ Slots4("VDPU_REG_REF_PIC_ADJ_0",
                       [i \in 0..3 |-> ToS8(hdr.ref_frm_delta_magnitude[i])])
        ELSE <<>>)

\* faulty variant: the delta registers are written without segmentation only
cfg_qp_deltas_unsegmented(hdr) ==
    IF ~hdr.sgmnt_enabled
    THEN Slot("VDPU_REG_REF_PIC_QUANT_0", 0) :> ToU32(hdr.y_ac_qi)
         @@ [sl \in {Slot("VDPU_REG_REF_PIC_QUANT_DELTA_0", i) : i \in 0..4}
                |-> ToU32(hdr.quant_delta[sl[2]])]
    ELSE IF hdr.segment_feature_mode # 0
    THEN Slots4("VDPU_REG_REF_PIC_QUANT_0", hdr.quant_update)
    ELSE Slots4("VDPU_REG_REF_PIC_QUANT_0",
                [i \in 0..3 |->
                    clamp(hdr.y_ac_qi + ToS8(hdr.quant_update[i]), 0, 127)])

\* lines 297-334: the slots written by rockchip_vp8d_cfg_qp and their values;
\* quant_delta[0..4] are y_dc_delta, y2_dc_delta, y2_ac_delta, uv_dc_delta
\* and uv_ac_delta, written to VDPU_REG_REF_PIC_QUANT_DELTA_0 .. _4
cfg_qp(hdr) ==
    (IF ~hdr.sgmnt_enabled
     THEN Slot("VDPU_REG_REF_PIC_QUANT_0", 0) :> ToU32(hdr.y_ac_qi)
     ELSE IF hdr.segment_feature_mode # 0
     THEN Slots4("VDPU_REG_REF_PIC_QUANT_0", hdr.quant_update)
     ELSE Slots4("VDPU_REG_REF_PIC_QUANT_0",
                 [i \in 0..3 |->
                     clamp(hdr.y_ac_qi + ToS8(hdr.quant_update[i]), 0, 127)]))
    @@ [sl \in {Slot("VDPU_REG_REF_PIC_QUANT_DELTA_0", i) : i \in 0..4}
           |-> ToU32(hdr.quant_delta[sl[2]])]

\* segment updates (__s8) and base values (__u8) of the headers
SegUpdates == [0..3 -> {-70, 0, 70}]
BaseValues == {0, 60, 100, 255}

LfQpHdrs ==
    [sgmnt_enabled : BOOLEAN,
     segment_feature_mode : {0, 1},
     level : BaseValues,
     lf_update : SegUpdates,
     sharpness_level : {5},
     type : {0, 1},
     adj_enable : BOOLEAN,
     mb_mode_delta_magnitude : {[i \in 0..3 |-> i - 2]},
     ref_frm_delta_magnitude : {[i \in 0..3 |-> 3 - i]},
     y_ac_qi : {100},
     quant_update : {[i \in 0..3 |-> 0]},
     quant_delta : {[i \in 0..4 |-> i - 2]}]
    \cup
    [sgmnt_enabled : BOOLEAN,
     segment_feature_mode : {0, 1},
     level : {40},
     lf_update : {[i \in 0..3 |-> 0]},
     sharpness_level : {5},
     type : {0},
     adj_enable : {FALSE},
     mb_mode_delta_magnitude : {[i \in 0..3 |-> 0]},
     ref_frm_delta_magnitude : {[i \in 0..3 |-> 0]},
     y_ac_qi : BaseValues,
     quant_update : SegUpdates,
     quant_delta : {[i \in 0..4 |-> i - 2], [i \in 0..4 |-> 0]}]

LfQpInit ==
    /\ DeviceInit
    /\ frame_hdr \in LfQpHdrs
    /\ hw_cfg = NONE

rockchip_vp8d_cfg_lf ==
    /\ hw_cfg = NONE
    /\ hw_cfg' = [fn |-> "cfg_lf", regs |-> cfg_lf(frame_hdr)]
    /\ UNCHANGED <<frame_hdr, device>>

rockchip_vp8d_cfg_qp ==
    /\ hw_cfg = NONE
    /\ hw_cfg' = [fn |-> "cfg_qp", regs |-> cfg_qp(frame_hdr)]
    /\ UNCHANGED <<frame_hdr, device>>

SpecCfgLfQp ==
    LfQpInit /\ [][rockchip_vp8d_cfg_lf \/ rockchip_vp8d_cfg_qp]_vars

(* ------------------- reference frames (run hook) ----------------------- *)
\* the largest number of output buffers of a Session
MaxDstBufs == 3

\* vb2_dma_contig_plane_dma_addr of output buffer i of the Session
DstDma(i) == <<8192 + i, 4096>>

\* lines 489-492, 508-511, 522-525: the buffer a reference index selects
ref_buf(hdr, index) ==
    IF index >= hdr.num_buffers THEN hdr.run_dst ELSE index

\* faulty variant: the golden reference takes the index of the last frame
cfg_ref_golden_is_last(hdr) ==
    (Slot("VDPU_REG_VP8_ADDR_REF0", 0) :>
        (IF hdr.key_frame = 0
         THEN DstDma(hdr.run_dst)
         ELSE DstDma(ref_buf(hdr, hdr.last_frame))))
    @@ (Slot("VDPU_REG_VP8_ADDR_REF2_5_0", 0) :>
           DstDma(ref_buf(hdr, hdr.last_frame)))
    @@ (IF hdr.sign_bias_golden # 0
        THEN Slot("VDPU_REG_VP8_GREF_SIGN_BIAS_0", 0) :> U32(1)
        ELSE <<>>)
    @@ (Slot("VDPU_REG_VP8_ADDR_REF2_5_1", 0) :>
           DstDma(ref_buf(hdr, hdr.alt_frame)))
    @@ (IF hdr.sign_bias_alternate # 0
        THEN Slot("VDPU_REG_VP8_AREF_SIGN_BIAS_1", 0) :> U32(1)
        ELSE <<>>)

\* lines 488-532: the slots written by rockchip_vp8d_cfg_ref and their
\* values; run_dst is the output buffer of the Job, num_buffers is
\* ctx->vq_dst.num_buffers
cfg_ref(hdr) ==
    (Slot("VDPU_REG_VP8_ADDR_REF0", 0) :>
        (IF hdr.key_frame = 0
         THEN DstDma(hdr.run_dst)
         ELSE DstDma(ref_buf(hdr, hdr.last_frame))))
    @@ (Slot("VDPU_REG_VP8_ADDR_REF2_5_0", 0) :>
           DstDma(ref_buf(hdr, hdr.golden_frame)))
    @@ (IF hdr.sign_bias_golden # 0
        THEN Slot("VDPU_REG_VP8_GREF_SIGN_BIAS_0", 0) :> U32(1)
        ELSE <<>>)
    @@ (Slot("VDPU_REG_VP8_ADDR_REF2_5_1", 0) :>
           DstDma(ref_buf(hdr, hdr.alt_frame)))
    @@ (IF hdr.sign_bias_alternate # 0
        THEN Slot("VDPU_REG_VP8_AREF_SIGN_BIAS_1", 0) :> U32(1)
        ELSE <<>>)

\* headers and Sessions: reference indices inside and outside the buffers
RefHdrs ==
    UNION {[key_frame : {0, 1},
            last_frame : 0..MaxDstBufs,
            golden_frame : 0..MaxDstBufs,
            alt_frame : 0..MaxDstBufs,
            sign_bias_golden : {0, 1},
            sign_bias_alternate : {0, 1},
            num_buffers : {n},
            run_dst : 0..(n - 1)] : n \in 1..MaxDstBufs}

RefInit ==
    /\ DeviceInit
    /\ frame_hdr \in RefHdrs
    /\ hw_cfg = NONE

rockchip_vp8d_cfg_ref ==
    /\ hw_cfg = NONE
    /\ hw_cfg' = [fn |-> "cfg_ref", regs |-> cfg_ref(frame_hdr)]
    /\ UNCHANGED <<frame_hdr, device>>

SpecCfgRef == RefInit /\ [][rockchip_vp8d_cfg_ref]_vars

(* ------------------- prediction filter taps (run hook) ----------------- *)
\* lines 75-84: the rows 0..7 of vp8d_mc_filter, columns 0..5
vp8d_mc_filter ==
    [i \in 0..7 |->
        [j \in 0..5 |->
            << <<0, 0, 128, 0, 0, 0>>,
               <<0, -6, 123, 12, -1, 0>>,
               <<2, -11, 108, 36, -8, 1>>,
               <<0, -9, 93, 50, -6, 0>>,
               <<3, -16, 77, 77, -16, 3>>,
               <<0, -6, 50, 93, -9, 0>>,
               <<1, -8, 36, 108, -11, 2>>,
               <<0, -1, 12, 123, -6, 0>> >>[i + 1][j + 1]]]

\* faulty variant: the base address of the slot is not tested
cfg_tap_unguarded(hdr) ==
    IF hdr.version % 4 # 0
    THEN <<>>
    ELSE [sl \in {Slot("VDPU_REG_PRED_FLT_NONE_0", k) : k \in 0..47}
             |-> ToU32(vp8d_mc_filter[sl[2] \div 6][sl[2] % 6])]

\* lines 465-478: the slots written by rockchip_vp8d_cfg_tap and their
\* values; tap_base[k] is RK_GET_REG_BASE(VDPU_REG_PRED_FLT_NONE_0 + k)
cfg_tap(hdr) ==
    IF hdr.version % 4 # 0
    THEN <<>>
    ELSE [sl \in {Slot("VDPU_REG_PRED_FLT_NONE_0", k) :
                     k \in {n \in 0..47 : hdr.tap_base[n] # 0}}
             |-> ToU32(vp8d_mc_filter[sl[2] \div 6][sl[2] % 6])]

\* frame versions, and register tables that lack the tap registers of some
\* rows and columns of the filter
TapHdrs ==
    [version : 0..7,
     tap_base : {[k \in 0..47 |->
                     IF (k \div 6) \in rows \/ (k % 6) \in cols
                     THEN 0 ELSE 4 * (k + 1)] :
                  rows \in SUBSET {0, 3, 7}, cols \in {{}, {5}, 0..5}}]

TapInit ==
    /\ DeviceInit
    /\ frame_hdr \in TapHdrs
    /\ hw_cfg = NONE

rockchip_vp8d_cfg_tap ==
    /\ hw_cfg = NONE
    /\ hw_cfg' = [fn |-> "cfg_tap", regs |-> cfg_tap(frame_hdr)]
    /\ UNCHANGED <<frame_hdr, device>>

SpecCfgTap == TapInit /\ [][rockchip_vp8d_cfg_tap]_vars

(* ------------------ probability table (run hook) ----------------------- *)
\* sizeof(struct vp8_prob_tbl_packed)
ProbTblSize == 8 + 8 + (2 * 19 + 2) + (4 * 8 * 3 * 11 + 96)

\* a byte of the header, named by its array and its indices
Src(name, i, j, k, l) == <<name, i, j, k, l>>
Unused == Src("unused", 0, 0, 0, 0)
MvProb(i, j) == Src("mv_probs", i, j, 0, 0)
CoeffProb(i, j, k, l) == Src("coeff_probs", i, j, k, l)

\* every probability byte of the header
SrcBytes ==
    {Src(f, 0, 0, 0, 0) : f \in {"prob_skip_false", "prob_intra", "prob_last",
                                 "prob_gf"}}
    \cup {Src("segment_probs", i, 0, 0, 0) : i \in 0..2}
    \cup {Src("y_mode_probs", i, 0, 0, 0) : i \in 0..3}
    \cup {Src("uv_mode_probs", i, 0, 0, 0) : i \in 0..2}
    \cup {MvProb(i, j) : i \in 0..1, j \in 0..18}
    \cup {CoeffProb(i, j, k, l) : i \in 0..3, j \in 0..7, k \in 0..2,
                                  l \in 0..10}

\* the stores "dst[n] = ..." from dst = base on, in program order
Stores(base, srcs) == [n \in 1..Len(srcs) |-> <<base + n - 1, srcs[n]>>]

first_probs ==
    Stores(0, <<Src("prob_skip_false", 0, 0, 0, 0), Src("prob_intra", 0, 0, 0, 0),
                Src("prob_last", 0, 0, 0, 0), Src("prob_gf", 0, 0, 0, 0),
                Src("segment_probs", 0, 0, 0, 0),
                Src("segment_probs", 1, 0, 0, 0),
                Src("segment_probs", 2, 0, 0, 0), Unused>>)

\* faulty variant: the mode probabilities are stored one 8-byte block later
mode_probs_one_block_later ==
    Stores(16, <<Src("y_mode_probs", 0, 0, 0, 0), Src("y_mode_probs", 1, 0, 0, 0),
                 Src("y_mode_probs", 2, 0, 0, 0), Src("y_mode_probs", 3, 0, 0, 0),
                 Src("uv_mode_probs", 0, 0, 0, 0),
                 Src("uv_mode_probs", 1, 0, 0, 0),
                 Src("uv_mode_probs", 2, 0, 0, 0), Unused>>)

mode_probs ==
    Stores(8, <<Src("y_mode_probs", 0, 0, 0, 0), Src("y_mode_probs", 1, 0, 0, 0),
                Src("y_mode_probs", 2, 0, 0, 0), Src("y_mode_probs", 3, 0, 0, 0),
                Src("uv_mode_probs", 0, 0, 0, 0),
                Src("uv_mode_probs", 1, 0, 0, 0),
                Src("uv_mode_probs", 2, 0, 0, 0), Unused>>)

mv_probs_short ==
    Stores(16, <<MvProb(0, 0), MvProb(1, 0), MvProb(0, 1), MvProb(1, 1),
                 MvProb(0, 8 + 9), MvProb(0, 9 + 9), MvProb(1, 8 + 9),
                 MvProb(1, 9 + 9)>>)

\* for i < 2, for j in 0, 4: four stores, dst += 4
mv_probs_long ==
    Stores(24, [n \in 1..16 |->
                  LET i == (n - 1) \div 8
                      j == 4 * (((n - 1) \div 4) % 2)
                  IN  MvProb(i, j + 9 + ((n - 1) % 4))])

\* for i < 2: seven stores and an unused byte, dst += 8
mv_probs_tree ==
    Stores(40, [n \in 1..16 |->
                  LET i == (n - 1) \div 8
                      b == (n - 1) % 8
                  IN  IF b = 7 THEN Unused ELSE MvProb(i, b + 2)])

\* for i < 4, j < 8, k < 3: stores of l = 0..3, dst += 4
coeff_probs_header(base) ==
    Stores(base, [n \in 1..(4 * 8 * 3 * 4) |->
                    LET e == (n - 1) \div 4
                    IN  CoeffProb(e \div 24, (e \div 3) % 8, e % 3, (n - 1) % 4)])

\* for i < 4, j < 8, k < 3: stores of l = 4..10 and an unused byte, dst += 8
coeff_probs_footer(base) ==
    Stores(base, [n \in 1..(4 * 8 * 3 * 8) |->
                    LET e == (n - 1) \div 8
                        b == (n - 1) % 8
                    IN  IF b = 7 THEN Unused
                        ELSE CoeffProb(e \div 24, (e \div 3) % 8, e % 3, b + 4)])

\* faulty variant: the footer part starts one 8-byte row early
prob_update_stores_footer_early ==
    first_probs \o mode_probs \o mv_probs_short \o mv_probs_long
    \o mv_probs_tree \o coeff_probs_header(8 * 7) \o coeff_probs_footer(8 * 54)

\* all stores of rockchip_vp8d_prob_update, in program order
prob_update_stores ==
    first_probs \o mode_probs \o mv_probs_short \o mv_probs_long
    \o mv_probs_tree \o coeff_probs_header(8 * 7) \o coeff_probs_footer(8 * 55)

\* the store that decides the final content of each offset: the last one
LastStore(stores) ==
    [o \in 0..(ProbTblSize - 1) |->
        LET at == {n \in 1..Len(stores) : stores[n][1] = o}
        IN  IF at = {} THEN Unused
            ELSE stores[CHOOSE n \in at : \A m \in at : m <= n][2]]

\* what each offset of the table holds when the function returns
prob_tbl_layout == LastStore(prob_update_stores)

\* the table after the function ran on header bytes hdr (a function on SrcBytes)
prob_tbl_of(hdr) ==
    [o \in 0..(ProbTblSize - 1) |->
        IF prob_tbl_layout[o] = Unused THEN 0 ELSE hdr[prob_tbl_layout[o]]]

\* headers given by the client: byte patterns that tell the bytes apart
MaxSeed == 63

SrcIndex(s) ==
    IF s[1] = "coeff_probs"
    THEN 53 + ((s[2] * 8 + s[3]) * 3 + s[4]) * 11 + s[5]
    ELSE IF s[1] = "mv_probs" THEN 15 + s[2] * 19 + s[3]
    ELSE IF s[1] = "uv_mode_probs" THEN 12 + s[2]
    ELSE IF s[1] = "y_mode_probs" THEN 8 + s[2]
    ELSE IF s[1] = "segment_probs" THEN 5 + s[2]
    ELSE IF s[1] = "prob_gf" THEN 4
    ELSE IF s[1] = "prob_last" THEN 3
    ELSE IF s[1] = "prob_intra" THEN 2
    ELSE 1

HdrProbs(seed) ==
    [s \in SrcBytes |->
        (SrcIndex(s) * (2 * seed + 1)) % (IF seed % 2 = 0 THEN 256 ELSE 251)]

ProbInit ==
    /\ DeviceInit
    /\ frame_hdr \in {HdrProbs(seed) : seed \in 0..MaxSeed}
    /\ hw_cfg = NONE

rockchip_vp8d_prob_update ==
    /\ hw_cfg = NONE
    /\ hw_cfg' = [prob_tbl |-> prob_tbl_of(frame_hdr)]
    /\ UNCHANGED <<frame_hdr, device>>

SpecProbUpdate == ProbInit /\ [][rockchip_vp8d_prob_update]_vars

(* ---------------- scratch buffers of a Session (codec hooks) ------------ *)
\* the hooks one Session goes through; every hook call counts
MaxCalls == 5

\* struct rockchip_vpu_aux_buf as kzalloc leaves it and as free leaves it;
\* the blocks of the pool are numbered from 1, the CPU pointer NULL is 0
ClearedBuf == [cpu |-> 0, dma |-> 0, size |-> 0]

\* the device address of block b of the coherent pool
DmaOf(b) == 4096 * b

\* the function f without the argument a
Without(f, a) == [x \in (DOMAIN f) \ {a} |-> f[x]]

\* the function f with the argument a set to v
With(f, a, v) == [x \in (DOMAIN f) \cup {a} |-> IF x = a THEN v ELSE f[x]]

DIV_ROUND_UP(n, d) == (n + d - 1) \div d
round_up(x, y) == ((x + y - 1) \div y) * y
MB_DIM == 16
MB_WIDTH(x_size) == DIV_ROUND_UP(x_size, MB_DIM)
MB_HEIGHT(y_size) == DIV_ROUND_UP(y_size, MB_DIM)

\* dma_alloc_coherent: no block (ok = FALSE) or a fresh block of the pool,
\* whose content is whatever the pool holds
dma_alloc_coherent(h, ok) ==
    IF ok THEN [h EXCEPT !.heap = With(@, h.allocs + 1, "uninit"),
                         !.allocs = @ + 1]
    ELSE h

\* dma_free_coherent: the block at cpu goes back to the pool; a NULL cpu
\* names no block. Every call is logged with its arguments.
dma_free_coherent(h, size, cpu, dma) ==
    [h EXCEPT !.heap = Without(@, cpu),
              !.released = Append(@, <<size, cpu, dma>>)]

rockchip_vpu_aux_buf_alloc(h, buf, size, ok) ==
    LET h1 == dma_alloc_coherent(h, ok)
    IN  IF ~ok
        THEN [h1 EXCEPT ![buf].cpu = 0, !.ret = "-ENOMEM"]
        ELSE [h1 EXCEPT ![buf] = [cpu |-> h1.allocs, dma |-> DmaOf(h1.allocs),
                                  size |-> size],
                        !.ret = "0"]

\* faulty variant: the handle keeps its CPU pointer
aux_buf_free_keeps_cpu(h, buf) ==
    [dma_free_coherent(h, h[buf].size, h[buf].cpu, h[buf].dma)
        EXCEPT ![buf].dma = 0, ![buf].size = 0]

rockchip_vpu_aux_buf_free(h, buf) ==
    [dma_free_coherent(h, h[buf].size, h[buf].cpu, h[buf].dma)
        EXCEPT ![buf] = ClearedBuf]

\* memset(buf->cpu, 0, buf->size)
memset_zero(h, buf) == [h EXCEPT !.heap[h[buf].cpu] = "zero"]

segment_map_size(hdr) ==
    round_up(DIV_ROUND_UP(MB_WIDTH(hdr.width) * MB_HEIGHT(hdr.height), 4), 64)

\* faulty variant: a failed probability-table allocation returns at once
vp8d_init_leaks_segment_map(h, hdr, ok_map, ok_tbl) ==
    IF hdr.vpu_type \notin {"RK3229_VPU", "RK3288_VPU"}
    THEN [h EXCEPT !.ret = "-EPERM"]
    ELSE LET h1 == rockchip_vpu_aux_buf_alloc(h, "segment_map",
                                              segment_map_size(hdr), ok_map)
         IN  IF h1.ret # "0" THEN h1
             ELSE rockchip_vpu_aux_buf_alloc(memset_zero(h1, "segment_map"),
                                             "prob_tbl", ProbTblSize, ok_tbl)

\* rockchip_vpu_vp8d_init; ok_map and ok_tbl say which allocations succeed
vp8d_init(h, hdr, ok_map, ok_tbl) ==
    IF hdr.vpu_type \notin {"RK3229_VPU", "RK3288_VPU"}
    THEN [h EXCEPT !.ret = "-EPERM"]
    ELSE LET h1 == rockchip_vpu_aux_buf_alloc(h, "segment_map",
                                              segment_map_size(hdr), ok_map)
         IN  IF h1.ret # "0" THEN h1
             ELSE LET h2 == rockchip_vpu_aux_buf_alloc(
                                memset_zero(h1, "segment_map"),
                                "prob_tbl", ProbTblSize, ok_tbl)
                  IN  IF h2.ret # "0"
                      THEN rockchip_vpu_aux_buf_free(h2, "segment_map")
                      ELSE h2

\* rockchip_vpu_vp8d_exit
vp8d_exit(h) ==
    rockchip_vpu_aux_buf_free(rockchip_vpu_aux_buf_free(h, "segment_map"),
                              "prob_tbl")

\* faulty variant: the segmentation map is reset at every run
vp8d_run_resets_always(h, hdr) ==
    LET h1 == IF h.segment_map.cpu # 0
              THEN memset_zero(h, "segment_map") ELSE h
    IN  [h1 EXCEPT !.heap[h.prob_tbl.cpu] = "probs"]

\* rockchip_vpu_vp8d_run, as far as the scratch buffers go: the reset of the
\* segmentation map and the rebuilt probability table
vp8d_run(h, hdr) ==
    LET h1 == IF hdr.key_frame = 0 /\ h.segment_map.cpu # 0
              THEN memset_zero(h, "segment_map") ELSE h
    IN  [h1 EXCEPT !.heap[h.prob_tbl.cpu] = "probs"]

\* the Session as open() leaves it: the context is zeroed, no block is held
CodecHdrs ==
    [vpu_type : {"RK3288_VPU", "RK3229_VPU", "RK_VPU_NONE"},
     width : {16, 176}, height : {16, 144},
     key_frame : {0}, update_map : {FALSE}]

CodecInit ==
    /\ DeviceInit
    /\ frame_hdr \in CodecHdrs
    /\ hw_cfg = [fn |-> "open", ret |-> "0", calls |-> 0,
                 segment_map |-> ClearedBuf, prob_tbl |-> ClearedBuf,
                 heap |-> << >>, allocs |-> 0, released |-> << >>,
                 before |-> [segment_map |-> ClearedBuf,
                             prob_tbl |-> ClearedBuf, heap |-> << >>,
                             allocs |-> 0, released |-> << >>],
                 engine |-> FALSE]

\* what a hook call records besides its own effect
Called(h, fn) ==
    [h EXCEPT !.fn = fn, !.calls = hw_cfg.calls + 1,
              !.before = [segment_map |-> hw_cfg.segment_map,
                          prob_tbl |-> hw_cfg.prob_tbl,
                          heap |-> hw_cfg.heap, allocs |-> hw_cfg.allocs,
                          released |-> hw_cfg.released]]

\* codec_ops->init on a Session that holds no scratch buffer
rockchip_vpu_vp8d_init ==
    /\ hw_cfg.calls < MaxCalls
    /\ hw_cfg.segment_map.cpu = 0
    /\ hw_cfg.prob_tbl.cpu = 0
    /\ \E ok_map \in BOOLEAN, ok_tbl \in BOOLEAN :
          hw_cfg' = [Called(vp8d_init(hw_cfg, frame_hdr, ok_map, ok_tbl), "init")
                        EXCEPT !.engine = FALSE]
    /\ UNCHANGED <<frame_hdr, device>>

\* codec_ops->exit
rockchip_vpu_vp8d_exit ==
    /\ hw_cfg.calls < MaxCalls
    /\ hw_cfg' = [Called(vp8d_exit(hw_cfg), "exit") EXCEPT !.engine = FALSE]
    /\ UNCHANGED <<frame_hdr, device>>

\* codec_ops->run of one Job of an initialised Session
rockchip_vpu_vp8d_run ==
    /\ hw_cfg.calls < MaxCalls
    /\ hw_cfg.segment_map.cpu # 0
    /\ hw_cfg.prob_tbl.cpu # 0
    /\ \E key_frame \in {0, 1}, update_map \in BOOLEAN :
          /\ frame_hdr' = [frame_hdr EXCEPT !.key_frame = key_frame,
                                            !.update_map = update_map]
          /\ hw_cfg' = [Called(vp8d_run(hw_cfg, frame_hdr'), "run")
                           EXCEPT !.engine = TRUE]
    /\ UNCHANGED device

\* the engine decodes the Job: with VDPU_REG_FWD_PIC1_SEGMENT_UPD_E set it
\* stores the frame's map at VDPU_REG_FWD_PIC1_SEGMENT_BASE
vdpu_decode ==
    /\ hw_cfg.engine
    /\ hw_cfg' = [hw_cfg EXCEPT
                     !.engine = FALSE,
                     !.heap = IF frame_hdr.update_map
                              THEN With(@, hw_cfg.segment_map.cpu, "map")
                              ELSE @]
    /\ UNCHANGED <<frame_hdr, device>>

NextCodec ==
    \/ rockchip_vpu_vp8d_init
    \/ rockchip_vpu_vp8d_run
    \/ vdpu_decode
    \/ rockchip_vpu_vp8d_exit

SpecCodec == CodecInit /\ [][NextCodec]_vars

(* ------------------- register coalescing (run hook) -------------------- *)
\* a u32 register word is held as the set of the positions of its set bits:
\* & is intersection, | is union
WordBits == 32

\* the slot before which the pass ends; the slots are 0..MaxSlot
MaxSlot == 3
VDPU_REG_BEFORE_ENABLE == MaxSlot

\* x << s on u32: bits shifted beyond bit 31 are lost
Shl(x, s) == {b + s : b \in {c \in x : c + s < WordBits}}

\* (rk_regs_value[i] & RK_GET_REG_BITS_MASK(i)) << RK_GET_REG_BITS_OFFSET(i)
RegField(tbl, val, i) == Shl(val[i] \cap tbl[i].mask, tbl[i].shift)

\* the register words of the table; base 0 marks a slot the variant lacks
RegBases == {4, 8}

\* the entries RK_GET_REG_BASE, _BITS_MASK, _BITS_OFFSET of one slot
RegEntries == [base : {0} \cup RegBases, mask : {{0, 1}}, shift : {0, 2}]

\* the tables: the fields of two slots of one register word do not overlap
RegTables ==
    {tbl \in [0..MaxSlot -> RegEntries] :
        \A i, j \in 0..MaxSlot :
            (i # j /\ tbl[i].base # 0 /\ tbl[i].base = tbl[j].base)
                => Shl(tbl[i].mask, tbl[i].shift)
                      \cap Shl(tbl[j].mask, tbl[j].shift) = {}}

\* rk_regs_value: 0, 1 and 6 (a value with a bit outside the mask)
RegValues == [0..MaxSlot -> {{}, {0}, {1, 2}}]

\* lines 746-758: one iteration of the loop, for slot i
coalesce_step(tbl, val, st, i) ==
    IF st.reg_base # 0
          /\ (st.reg_base # tbl[i].base \/ i = VDPU_REG_BEFORE_ENABLE)
    THEN [reg |-> RegField(tbl, val, i),
          reg_base |-> tbl[i].base,
          hw |-> [st.hw EXCEPT ![st.reg_base] = st.reg \cup @]]
    ELSE [reg |-> st.reg \cup RegField(tbl, val, i),
          reg_base |-> tbl[i].base,
          hw |-> st.hw]

\* lines 741-759: the pass up to and including slot i, on the register file
\* that lines 669-670 have written with 0
RECURSIVE coalesce(_, _, _)
coalesce(tbl, val, i) ==
    IF i = 0
    THEN [reg |-> RegField(tbl, val, 0),
          reg_base |-> tbl[0].base,
          hw |-> [b \in RegBases |-> {}]]
    ELSE coalesce_step(tbl, val, coalesce(tbl, val, i - 1), i)

RegsInit ==
    /\ DeviceInit
    /\ frame_hdr \in [tbl : RegTables, val : RegValues]
    /\ hw_cfg = NONE

\* the register pass of rockchip_vpu_vp8d_run
rockchip_vpu_vp8d_run_regs ==
    /\ hw_cfg = NONE
    /\ hw_cfg' = coalesce(frame_hdr.tbl, frame_hdr.val, VDPU_REG_BEFORE_ENABLE).hw
    /\ UNCHANGED <<frame_hdr, device>>

SpecRegs == RegsInit /\ [][rockchip_vpu_vp8d_run_regs]_vars

(* ----------------------- notions used by the claims -------------------- *)
Jobs == 1..Len(dispatched)

\* jobs of context c among the first j dispatched
JobsOf(c, j) == Cardinality({i \in 1..j : dispatched[i].ctx = c})

NoDuplicates(s) == \A i, j \in 1..Len(s) : i # j => s[i] # s[j]

\* ids n+1 .. m in order
IdsFrom(n, m) == [i \in 1..(m - n) |-> n + i]

(* -------------------------------- C1 ----------------------------------- *)
\* the run hook of job j has been called
Started(j) == \A p \in Procs : ljob[p] = j => pc[p] \notin {"t_cur", "t_run"}

\* a Job is in flight once its buffers are bound and its run is started,
\* until a completion has cleared VPU_RUNNING for it
InFlight(j) == Started(j) /\ j \notin completed

\* C1: in every reachable state at most one Job is in flight on the Device.
AtMostOneJobInFlight == Cardinality({j \in Jobs : InFlight(j)}) <= 1

(* -------------------------------- C2 ----------------------------------- *)
\* C2: codec_ops->done is never invoked more than once for one dispatched
\* Job: by the interrupt handler or by the watchdog handler, never by both.
DoneInvokedOncePerJob == \A j \in Jobs : Len(doneBy[j]) <= 1

(* -------------------------------- C3 ----------------------------------- *)
\* C3: a Session appears in the readiness queue at most once at any instant.
ReadyAtMostOnce == NoDuplicates(ready_ctxs)

\* a submit found its Session already queued, with a second buffer waiting
ReadyAtMostOnce_witness ==
    /\ pc["client"] = "t_check"
    /\ InList(ready_ctxs, lctx["client"])
    /\ Len(src_queue[lctx["client"]]) + Len(dst_queue[lctx["client"]]) >= 3

(* -------------------------------- C4 ----------------------------------- *)
\* C4: the k-th Job of a Session binds that Session's k-th input buffer and
\* k-th output buffer, and the queues keep exactly the buffers queued after
\* them, in submission order.
DispatchBindsHeads ==
    /\ \A j \in Jobs :
          LET k == JobsOf(dispatched[j].ctx, j)
          IN dispatched[j].src = k /\ dispatched[j].dst = k
    /\ \A c \in Ctxs :
          LET n == JobsOf(c, Len(dispatched))
          IN /\ src_queue[c] = IdsFrom(n, Len(src_sig[c]))
             /\ dst_queue[c] = IdsFrom(n, Len(dst_sig[c]))

\* a Session was dispatched a second time
DispatchBindsHeads_witness ==
    \E p \in Procs :
        /\ pc[p] = "t_cur"
        /\ JobsOf(tctx[p], Len(dispatched)) = 2

(* -------------------------------- C5 ----------------------------------- *)
\* a try_run pass of p ends without a dispatch
PassEnds(p) == pc[p] \in {"d_lock", "t_check", "t_tas"} /\ pc'[p] = "idle"

\* a try_run pass of p dispatches
PassDispatches(p) == pc[p] = "t_tas" /\ pc'[p] = "t_cur"

\* C5: Sessions are dispatched in the order in which they entered the
\* readiness queue: the queue changes only by an append at its tail or by the
\* dispatch of its head, the others staying queued; and a completion never
\* returns leaving a ready Session undispatched while the engine is idle and
\* not suspended, so the next Session is dispatched by the completion path.
FifoDispatch ==
    [][ /\ \/ ready_ctxs' = ready_ctxs
           \/ \E c \in Ctxs : ready_ctxs' = Append(ready_ctxs, c)
           \/ /\ ready_ctxs # <<>>
              /\ ready_ctxs' = Tail(ready_ctxs)
              /\ Len(dispatched') = Len(dispatched) + 1
              /\ dispatched'[Len(dispatched')].ctx = Head(ready_ctxs)
        /\ Len(dispatched') > Len(dispatched) => ready_ctxs' # ready_ctxs
        /\ \A p \in Handlers :
              PassEnds(p) => ready_ctxs' = <<>> \/ suspended' \/ running'
      ]_vars

\* the completion of one Session's Job dispatches the other Session, which
\* was queued first, and the completed Session stays queued behind it
FifoDispatch_witness ==
    \E p \in Handlers :
        /\ pc[p] = "t_cur"
        /\ lctx[p] \in Ctxs
        /\ tctx[p] \in Ctxs \ {lctx[p]}
        /\ ready_ctxs = <<lctx[p]>>

(* -------------------------------- C6 ----------------------------------- *)
\* buffers bound to job j are signalled with nothing but the results rs
SignalledWithin(j, rs) ==
    LET d == dispatched[j]
    IN /\ src_sig[d.ctx][d.src] \in rs
       /\ dst_sig[d.ctx][d.dst] \in rs

\* C6: a dispatched Job whose hardware completion never arrives is completed
\* by the watchdog armed during its dispatch: while the engine executes the
\* Job that watchdog is pending or its handler is resetting the engine, and
\* the Job is completed exactly once, with ERROR, both its Buffers being
\* signalled ERROR and nothing else.
WatchdogCompletesTimedOutJob ==
    \A j \in Jobs \ hw_done :
        /\ hw_job = j => \/ wd_pending /\ wd_job = j
                         \/ pc["wdog"] = "w_reset" /\ hjob["wdog"] = j
        /\ doneBy[j] \in {<<>>, <<VB2_BUF_STATE_ERROR>>}
        /\ SignalledWithin(j, {<<>>, <<VB2_BUF_STATE_ERROR>>})
        /\ j \in completed =>
              /\ doneBy[j] = <<VB2_BUF_STATE_ERROR>>
              /\ SignalledWithin(j, {<<VB2_BUF_STATE_ERROR>>})

(* -------------------------------- C7 ----------------------------------- *)
\* C7: when a watchdog-driven completion has finished, the busy flag is
\* clear and the current Session is empty; its pass returns without a
\* dispatch only when no Session is ready, the engine is suspended or a Job
\* is already running; and the Job it dispatches is started with its
\* watchdog armed.
WatchdogLeavesSchedulerUsable ==
    [][ /\ (pc["wdog"] = "d_lock" /\ pc'["wdog"] # "d_lock")
              => ~running' /\ current_ctx' = NULL
        /\ PassEnds("wdog") => ready_ctxs' = <<>> \/ suspended' \/ running'
        /\ (pc["wdog"] = "r_start" /\ pc'["wdog"] = "idle")
              => wd_pending' /\ dec_e'
      ]_vars

(* -------------------------------- C8 ----------------------------------- *)
\* C8: between the return of suspend() and the call of resume() no Session
\* leaves the readiness queue, no buffers are bound and no run hook starts.
NoDispatchWhileSuspended ==
    [][ asleep =>
          /\ Len(ready_ctxs') >= Len(ready_ctxs)
          /\ dispatched' = dispatched
          /\ run' = run
          /\ \A p \in Procs : pc[p] = "t_run" => pc'[p] = "t_run"
      ]_vars

(* -------------------------------- C9 ----------------------------------- *)
\* job j is bound and its Buffers are not both signalled yet
Unfinished(j) == ~SignalledWithin(j, {<<VB2_BUF_STATE_DONE>>, <<VB2_BUF_STATE_ERROR>>})

\* C9: suspend() returns only once the current Session is empty and every
\* dispatched Job has run to its completion with its Buffers signalled, so
\* that no Job is in flight at that moment.
SuspendReturnsWithNoJob ==
    [][ (~asleep /\ asleep') =>
          /\ current_ctx' = NULL
          /\ \A j \in Jobs : ~Unfinished(j)
          /\ ~dec_e
      ]_vars

(* -------------------------------- C10 ---------------------------------- *)
\* C10: resume() clears the suspended flag; with a Session ready and the
\* engine idle the call goes on into a scheduler pass, which ends without a
\* dispatch only when it finds no Session ready or a Job running, and which
\* dispatches the head of the readiness queue.
ResumeDispatches ==
    [][ /\ (asleep /\ ~asleep') =>
              /\ ~suspended'
              /\ (ready_ctxs # <<>> /\ ~running) => pc'["pm"] # "idle"
        /\ PassEnds("pm") => ready_ctxs = <<>> \/ running
        /\ PassDispatches("pm") =>
              dispatched'[Len(dispatched')].ctx = Head(ready_ctxs)
      ]_vars

\* resume() found a Session ready and dispatched it within the call
ResumeDispatches_witness ==
    /\ pc["pm"] = "t_cur"
    /\ tctx["pm"] \in Ctxs

(* -------------------------------- C11 ---------------------------------- *)
\* C11: every Buffer bound to a Job is signalled at most once, and once the
\* Job's completion has finished both its Buffers have been signalled exactly
\* once, with the same terminal state.
BuffersSignalledOnce ==
    \A j \in Jobs :
        /\ SignalledWithin(j, {<<>>, <<VB2_BUF_STATE_DONE>>, <<VB2_BUF_STATE_ERROR>>})
        /\ j \in completed =>
              \/ SignalledWithin(j, {<<VB2_BUF_STATE_DONE>>})
              \/ SignalledWithin(j, {<<VB2_BUF_STATE_ERROR>>})

(* -------------------------------- C12 ---------------------------------- *)
\* C12: the aligned byte offset of the control partition is a multiple of 8,
\* mb_start_bits lies in [0, 63], and aligned offset * 8 + mb_start_bits is
\* mb_offset_bits, the product not wrapping.
CtrlPartAligned ==
    hw_cfg # NONE =>
        LET aligned == hw_cfg.ctrl_part_offset
            start == hw_cfg.strm1_start_bit
        IN /\ aligned[2] % 8 = 0
           /\ start[1] = 0 /\ start[2] \in 0..63
           /\ aligned[1] * 8 < Limb
           /\ Add32(Mul32(aligned, 8), start) = mb_offset_bits(frame_hdr)

\* first_part_offset 10, macroblock_bit_offset 3: mb_offset_bits is 91, the
\* aligned offset 8 and mb_start_bits 27
CtrlPartAligned_witness ==
    /\ hw_cfg # NONE
    /\ frame_hdr.first_part_offset = U32(10)
    /\ frame_hdr.macroblock_bit_offset = U32(3)
    /\ hw_cfg.ctrl_part_offset = U32(8)
    /\ hw_cfg.strm1_start_bit = U32(27)

\* C13: packing the header's probabilities into the table loses nothing and
\* nothing collides: no two stores of the function go to one offset, every
\* probability byte of the header (4 frame-level, 3 segment, 4 luma-mode,
\* 3 chroma-mode, 2x19 motion-vector, 4x8x3x11 coefficient) is stored at one
\* offset of its own inside the table, prob_skip_false at 0 and prob_intra at 1,
\* and the table read at that offset gives the header's byte back
ProbOffsets ==
    [s \in SrcBytes |->
        {prob_update_stores[n][1] :
            n \in {m \in 1..Len(prob_update_stores) :
                     prob_update_stores[m][2] = s}}]

ProbStoreOffsets ==
    {prob_update_stores[n][1] : n \in 1..Len(prob_update_stores)}

ProbPackingLossless ==
    hw_cfg # NONE =>
        /\ Cardinality(SrcBytes) = 4 + 3 + 4 + 3 + 2 * 19 + 4 * 8 * 3 * 11
        /\ Cardinality(ProbStoreOffsets) = Len(prob_update_stores)
        /\ ProbStoreOffsets \subseteq 0..(ProbTblSize - 1)
        /\ ProbOffsets[Src("prob_skip_false", 0, 0, 0, 0)] = {0}
        /\ ProbOffsets[Src("prob_intra", 0, 0, 0, 0)] = {1}
        /\ \A s \in SrcBytes :
              /\ Cardinality(ProbOffsets[s]) = 1
              /\ \A o \in ProbOffsets[s] : hw_cfg.prob_tbl[o] = frame_hdr[s]

\* a table packed from a header whose last coefficient byte is not zero and
\* differs from the first byte
ProbPackingLossless_witness ==
    /\ hw_cfg # NONE
    /\ ProbTblSize = 1208
    /\ hw_cfg.prob_tbl[0] = frame_hdr[Src("prob_skip_false", 0, 0, 0, 0)]
    /\ hw_cfg.prob_tbl[ProbTblSize - 2] = frame_hdr[CoeffProb(3, 7, 2, 10)]
    /\ hw_cfg.prob_tbl[ProbTblSize - 2] # 0
    /\ hw_cfg.prob_tbl[ProbTblSize - 2] # hw_cfg.prob_tbl[0]

(* -------------------------------- C14 ---------------------------------- *)
\* positions inside the run hook and at the done hook
InRunHook(p) == pc[p] \in {"r_arm", "r_start"}
InDoneHook(p) == pc[p] = "d_src"

\* the source, both buffers of job j have been signalled
SrcSignalled(j) == src_sig[dispatched[j].ctx][dispatched[j].src] # <<>>
BothSignalled(j) == SrcSignalled(j) /\ dst_sig[dispatched[j].ctx][dispatched[j].dst] # <<>>

\* C14: a completion runs the done hook, signals both Buffers, clears the
\* current Session (waking the waiters), re-adds the Session and only then
\* clears the busy flag; no Job is bound before the completion of the Job
\* before it has cleared the busy flag, and no run hook of one Job executes
\* while the done hook of a completion or the run hook of another Job does.
CompletionOrdered ==
    /\ \A p \in Handlers :
          /\ pc[p] \in {"d_src", "d_dst", "d_clear", "d_lock"} =>
                /\ hjob[p] \in Jobs
                /\ hjob[p] \notin completed
                /\ running
          /\ pc[p] \in {"d_dst", "d_clear", "d_lock"} =>
                /\ doneBy[hjob[p]] # <<>>
                /\ SrcSignalled(hjob[p])
          /\ pc[p] \in {"d_clear", "d_lock"} => BothSignalled(hjob[p])
          /\ pc[p] = "d_lock" => current_ctx = NULL
    /\ \A j \in Jobs : j \in completed => doneBy[j] # <<>> /\ BothSignalled(j)
    /\ \A j \in Jobs : j + 1 \in Jobs => j \in completed
    /\ \A p, q \in Procs :
          p # q /\ InRunHook(p) => ~InRunHook(q) /\ ~InDoneHook(q)

(* -------------------------------- C15 ---------------------------------- *)
\* C15: every Session in the readiness queue has at least one buffer in its
\* source queue and at least one in its destination queue, and every Job was
\* bound to a source and a destination buffer: no dispatch popped an empty
\* queue.
ReadyHasBuffers ==
    /\ \A c \in Ctxs :
          InList(ready_ctxs, c) => src_queue[c] # <<>> /\ dst_queue[c] # <<>>
    /\ \A j \in Jobs : dispatched[j].src # 0 /\ dispatched[j].dst # 0

\* a Job was dispatched from one Session while two Sessions are ready
ReadyHasBuffers_witness ==
    /\ Len(ready_ctxs) = 2
    /\ Len(dispatched) = 1
    /\ running

(* -------------------------------- C16 ---------------------------------- *)
\* a pass of try_run ends at its first test (list empty or suspended) or at
\* test_and_set_bit (already running)
PassFindsNothing(p) ==
    \/ pc[p] = "t_check" /\ pc'[p] # "t_check" /\ (ready_ctxs = <<>> \/ suspended)
    \/ pc[p] = "t_tas" /\ pc'[p] # "t_tas" /\ running

\* C16: try_run does nothing when the engine is suspended, when the ready list
\* is empty or when the engine is already running: the ready list, the buffer
\* queues, the bound buffers, the current Session and VPU_RUNNING are left as
\* they were and the pass returns without a hook (no power reference, no
\* register write, no Job); and VPU_RUNNING is set only by a step that
\* dispatches a Job.
TryRunNoOp ==
    [][ /\ \A p \in Procs :
              PassFindsNothing(p) =>
                 /\ UNCHANGED <<sched, power, hwregs, wd_pending, dispatched>>
                 /\ pc'[p] = "idle"
                 /\ irqlock' = FREE
        /\ (~running /\ running') => Len(dispatched') = Len(dispatched) + 1
      ]_vars

\* the first Job is not completed yet and a pass has returned from the running
\* engine, leaving a Session ready
TryRunNoOp_witness ==
    /\ running
    /\ Len(dispatched) = 1
    /\ completed = {}
    /\ ready_ctxs # <<>>
    /\ ~suspended
    /\ \A p \in Procs : pc[p] = "idle"

(* -------------------------------- C17 ---------------------------------- *)
\* the step is taken by a process that does not hold irqlock while another
\* process is inside its locked section
OutsideLock == irqlock # FREE /\ pc'[irqlock] = pc[irqlock]

\* the steps that read dev->current_ctx: vdpu_irq, rockchip_vpu_watchdog and
\* the wait_event test of rockchip_vpu_suspend
ReadsCurrent ==
    \/ pc["irq"] = "idle" /\ pc'["irq"] = "i_hook"
    \/ pc["wdog"] = "idle" /\ pc'["wdog"] = "w_reset"
    \/ pc["pm"] = "s_check" /\ pc'["pm"] # "s_check"

\* C17: the ready list, VPU_RUNNING and current_ctx are read and written only
\* under irqlock, so no step reads or writes one of them while another process
\* is inside its locked section; and the pre-run, run and done hooks run
\* with irqlock not held by their caller.
LockDiscipline ==
    /\ [](\A p \in Procs :
             pc[p] \in {"t_run", "r_arm", "r_start", "d_src"} => irqlock # p)
    /\ [][ OutsideLock =>
              /\ UNCHANGED <<ready_ctxs, running, current_ctx>>
              /\ ~ReadsCurrent ]_vars

(* -------------------------------- C18 ---------------------------------- *)
\* handler p leaves the locked section of rockchip_vpu_run_done
CompletionFinishes(p) == pc[p] = "d_lock" /\ pc'[p] = "t_check"

\* C18: when the completion of a Job leaves its locked section, the completed
\* Session is in the ready list exactly if it has a buffer in each of its
\* queues; a Session the completion added stands at the tail, behind those
\* that were waiting, and a Session that was waiting keeps its place.
CompletionReadds ==
    [][ \A p \in Handlers :
          CompletionFinishes(p) =>
             /\ InList(ready_ctxs', lctx[p])
                   <=> (src_queue'[lctx[p]] # <<>> /\ dst_queue'[lctx[p]] # <<>>)
             /\ (~InList(ready_ctxs, lctx[p]) /\ InList(ready_ctxs', lctx[p]))
                   => ready_ctxs' = Append(ready_ctxs, lctx[p])
             /\ InList(ready_ctxs, lctx[p]) => ready_ctxs' = ready_ctxs
      ]_vars

\* a completion has put its Session behind a waiting one, before the client
\* that queued the Session's last buffer reached try_context
CompletionReadds_witness ==
    \E p \in Handlers :
        /\ pc[p] = "t_check"
        /\ Len(ready_ctxs) = 2
        /\ ready_ctxs[2] = lctx[p]
        /\ pc["client"] = "tc"
        /\ lctx["client"] = lctx[p]
        /\ Len(src_queue[lctx[p]]) = 1
        /\ Len(dst_queue[lctx[p]]) = 1

(* -------------------------------- C19 ---------------------------------- *)
\* C19: under a fair scheduler, in which every dispatched Job is completed
\* (by the interrupt or by the watchdog) and every suspend is followed by a
\* resume, a Session that is in the ready list is eventually dispatched.
ReadyEventuallyDispatched ==
    \A c \in Ctxs : InList(ready_ctxs, c) ~> ~InList(ready_ctxs, c)

(* -------------------------------- C20 ---------------------------------- *)
\* C20: the power references are balanced per Job: the usage count is never
\* below zero, it is zero whenever no Job is in flight, it is one while the
\* run hook writes the registers of a Job and while the engine executes it,
\* and a completion has dropped the reference of its Job when it reaches the
\* done hook.
PowerBalanced ==
    /\ power >= 0
    /\ (\A j \in Jobs : ~InFlight(j)) => power = 0
    /\ \A p \in Procs : InRunHook(p) => power = 1
    /\ dec_e => power = 1
    /\ \A p \in Handlers :
          pc[p] \in {"d_src", "d_dst", "d_clear", "d_lock"} => power = 0

(* -------------------------------- C21 ---------------------------------- *)
\* C21: the run hook writes the enable bit last, after the watchdog was
\* armed: the bit is set by a run hook at its last step with the watchdog
\* pending, and while the engine is started for a Job the watchdog armed for
\* that Job is pending or its handler is about to reset the engine.
StartedUnderWatchdog ==
    /\ [][ (~dec_e /\ dec_e') =>
              /\ \E p \in Procs : pc[p] = "r_start" /\ pc'[p] = "idle"
              /\ wd_pending ]_vars
    /\ [](hw_job # 0 =>
            \/ wd_pending /\ wd_job = hw_job
            \/ pc["wdog"] = "w_reset" /\ hjob["wdog"] = hw_job)

(* -------------------------------- C22 ---------------------------------- *)
\* a process holds a pointer to context c that it will still use
Touches(p, c) ==
    \/ lctx[p] = c /\ pc[p] \in {"i_hook", "i_cancel", "w_reset", "d_src",
                                 "d_dst", "d_clear", "d_lock"}
    \/ tctx[p] = c /\ pc[p] \in {"t_cur", "t_run", "r_arm", "r_start"}

\* C22: a Session that has been freed is not the current Session, is not on
\* the ready list, has no Job in flight, and no pass of the scheduler, no
\* interrupt handler and no watchdog handler holds it.
FreedSessionUntouched ==
    \A c \in freed :
        /\ current_ctx # c
        /\ ~InList(ready_ctxs, c)
        /\ \A j \in Jobs : dispatched[j].ctx = c => ~InFlight(j)
        /\ \A p \in Procs : ~Touches(p, c)

(* -------------------------------- C23 ---------------------------------- *)
\* buffer b with signal log sig, of a Session with queue q and bound buffer r
\* whose Jobs are js: the buffer is in exactly one place
OwnedOnce(b, sig, q, r, js) ==
    LET queued == \E n \in 1..Len(q) : q[n] = b
        bound == r = b /\ sig = <<>>
    IN /\ Cardinality({n \in 1..Len(q) : q[n] = b}) <= 1
       /\ Len(sig) <= 1
       /\ queued => sig = <<>> /\ r # b
       /\ ~queued /\ sig = <<>> => bound
       /\ bound => \E j \in js : j \notin completed

\* C23: every submitted Buffer is in exactly one place: in the queue of its
\* Session, bound to the Session's Job in flight, or signalled back; it is
\* signalled once, out of the bound state, and never lost.
BufferOwnership ==
    \A c \in Ctxs :
        /\ \A b \in 1..Len(src_sig[c]) :
              OwnedOnce(b, src_sig[c][b], src_queue[c], run[c].src,
                        {j \in Jobs : dispatched[j].ctx = c /\ dispatched[j].src = b})
        /\ \A b \in 1..Len(dst_sig[c]) :
              OwnedOnce(b, dst_sig[c][b], dst_queue[c], run[c].dst,
                        {j \in Jobs : dispatched[j].ctx = c /\ dispatched[j].dst = b})

(* -------------------------------- C24 ---------------------------------- *)
\* no driver function is in progress in any thread or handler
Quiescent == \A p \in Procs : pc[p] = "idle"

\* C24: no dispatch is lost: in a quiescent state the ready list is not
\* non-empty while the engine is neither running nor suspended.
NoLostDispatch ==
    Quiescent => ~(ready_ctxs # <<>> /\ ~running /\ ~suspended)

\* a quiescent state in which a Session waits behind a running Job
NoLostDispatch_witness ==
    /\ Quiescent
    /\ ready_ctxs # <<>>
    /\ running
    /\ ~suspended
    /\ completed # {}

(* -------------------------------- C25 ---------------------------------- *)
\* handler p works on the Session and the buffers of the Job that raised its
\* interrupt or armed its watchdog
HoldsItsJob(p) ==
    /\ lctx[p] # NULL
    /\ hjob[p] \in Jobs
    /\ dispatched[hjob[p]].ctx = lctx[p]
    /\ run[lctx[p]].src = dispatched[hjob[p]].src
    /\ run[lctx[p]].dst = dispatched[hjob[p]].dst
    /\ hjob[p] \notin completed

\* C25: a handler that executes holds the Session of the Job it was triggered
\* for, never an empty one, and completes that Job and no other.
HandlerHasItsSession ==
    \A p \in Handlers :
        /\ pc[p] # "oops"
        /\ pc[p] \in {"i_hook", "i_cancel", "w_reset", "d_src", "d_dst"}
              => HoldsItsJob(p)

(* -------------------------------- C26 ---------------------------------- *)
\* C26: under a fair scheduler a suspend call returns, provided the Job in
\* flight is completed by the interrupt or by the watchdog (current_ctx is
\* cleared again and again): the waiter is woken after current_ctx was
\* cleared, no wake-up is lost, and it returns on finding current_ctx empty.
SuspendReturns ==
    /\ ([]<>(current_ctx = NULL))
          => [](pc["pm"] \in {"s_check", "s_sleep"} => <>asleep)
    /\ [][ (~asleep /\ asleep') => current_ctx = NULL /\ pc["pm"] = "s_check" ]_vars

\* the waiter has been woken by a completion that cleared current_ctx
SuspendReturns_witness ==
    /\ pc["pm"] = "s_check"
    /\ current_ctx = NULL
    /\ suspended
    /\ \E p \in Handlers : pc[p] = "d_lock" /\ hjob[p] \notin completed

(* -------------------------------- C27 ---------------------------------- *)
\* the interrupt handler returns from an irq hook that found the
\* decode-complete status bit clear
IrqHookFails ==
    /\ pc["irq"] = "i_hook"
    /\ pc'["irq"] # "i_hook"
    /\ lctx["irq"] # NULL
    /\ ~dec_irq

\* a Job is in flight and no other handler or caller is working on it
LeftInFlight(j) ==
    /\ InFlight(j)
    /\ \A p \in Procs \ {"irq"} : hjob[p] # j /\ ljob[p] # j

\* a Session is bound to the engine and nothing is left that would complete
\* its Job: the engine is stopped, no interrupt and no watchdog is pending,
\* and no handler or run hook is at work
Stranded ==
    /\ current_ctx # NULL
    /\ hw_job = 0 /\ ~irq_line /\ ~wd_pending
    /\ pc["irq"] = "idle" /\ pc["wdog"] = "idle"
    /\ \A p \in Procs : pc[p] \notin {"t_run", "r_arm", "r_start"}

\* C27: when the irq hook reports that the status bit is not set, the handler
\* performs no completion: no done hook, no Buffer signalled, VPU_RUNNING,
\* current_ctx, the ready list and the queues unchanged, no power-off, the
\* watchdog left as it is, and the handler returns; a Job that is bound then
\* is not left without something that completes it.
IrqNoCompletion ==
    [][ IrqHookFails =>
           /\ UNCHANGED <<sched, bufs, power, wd_pending, wd_job, joblog>>
           /\ pc'["irq"] = "idle"
           /\ ~Stranded' ]_vars

\* the interrupt handler has returned without a completion while a Job was in
\* flight: the hook's write of 0 cleared the enable bit of the Job, which is
\* neither finished nor completed, and its watchdog is pending
IrqNoCompletion_witness ==
    /\ pc["irq"] = "idle"
    /\ ~dec_e /\ ~dec_irq /\ hw_job = 0
    /\ wd_pending
    /\ \E j \in Jobs : LeftInFlight(j) /\ wd_job = j /\ j \notin hw_done

(* -------------------------------- C28 ---------------------------------- *)
\* the slots below the sentinel that are mapped to register word b
SlotsOf(tbl, b) == {i \in 0..(VDPU_REG_BEFORE_ENABLE - 1) : tbl[i].base = b}

\* every field of word b written individually into a zeroed register
WrittenIndividually(tbl, val, b) ==
    UNION {RegField(tbl, val, i) : i \in SlotsOf(tbl, b)}

\* C28: after the coalescing pass every register word holds what writing
\* every field individually into a zeroed register file gives: each slot
\* below VDPU_REG_BEFORE_ENABLE with a non-zero base has its masked value in
\* its bit field of the word at its base, and slots with base 0 contribute
\* nothing to any word.
CoalescingEquivalent ==
    hw_cfg # NONE =>
        /\ \A b \in RegBases :
              hw_cfg[b] = WrittenIndividually(frame_hdr.tbl, frame_hdr.val, b)
        /\ \A i \in 0..(VDPU_REG_BEFORE_ENABLE - 1) :
              frame_hdr.tbl[i].base # 0 =>
                 hw_cfg[frame_hdr.tbl[i].base]
                       \cap Shl(frame_hdr.tbl[i].mask, frame_hdr.tbl[i].shift)
                    = RegField(frame_hdr.tbl, frame_hdr.val, i)

\* the slots with base 0 hold no bits under their mask
UnmappedSlotsEmpty ==
    \A i \in 0..VDPU_REG_BEFORE_ENABLE :
        frame_hdr.tbl[i].base = 0 => RegField(frame_hdr.tbl, frame_hdr.val, i) = {}

\* the equivalence for tables whose unmapped slots hold nothing
CoalescingEquivalentMapped == UnmappedSlotsEmpty => CoalescingEquivalent

(* -------------------------------- C29 ---------------------------------- *)
\* a u32 is a multiple of 8
Aligned8(a) == a[2] % 8 = 0

\* C29: every stream address written by rockchip_vp8d_cfg_parts, the base
\* address of the control partition and the base address of each DCT
\* partition, is a multiple of 8, whatever the device address of the source
\* buffer and the offsets and sizes of the header.
StreamAddressesAligned ==
    hw_cfg # NONE =>
        /\ Aligned8(hw_cfg.ctrl_part)
        /\ \A i \in DOMAIN hw_cfg.addr_str : Aligned8(hw_cfg.addr_str[i])

\* the same for source buffers whose device address is a multiple of 8
StreamAddressesAlignedDma ==
    Aligned8(frame_hdr.src_dma) => StreamAddressesAligned

\* the DCT partition addresses alone
DctAddressesAligned ==
    hw_cfg # NONE => \A i \in DOMAIN hw_cfg.addr_str : Aligned8(hw_cfg.addr_str[i])

(* -------------------------------- C30 ---------------------------------- *)
\* a <= b on u32
Le32(a, b) == a[1] < b[1] \/ (a[1] = b[1] /\ a[2] <= b[2])

\* a + b as an integer of 33 bits: <<carry, high half-word, low half-word>>
Sum33(a, b) ==
    LET l == a[2] + b[2]
        h == a[1] + b[1] + (l \div Limb)
    IN <<h \div Limb, h % Limb, l % Limb>>

\* the macroblock data start lies inside the control partition:
\* first_part_offset <= mb_offset_bytes <= first_part_offset + first_part_size
MbStartInside(hdr) ==
    /\ Le32(hdr.first_part_offset, mb_offset_bytes(hdr))
    /\ Le32(Sub32(mb_offset_bytes(hdr), hdr.first_part_offset), hdr.first_part_size)

\* the aligned byte offset plus the length written to STREAM1_LEN is the end
\* of the control partition, as integers
EndsAtPartitionEnd(hdr, cfg) ==
    Sum33(cfg.ctrl_part_offset, cfg.stream1_len)
        = Sum33(hdr.first_part_offset, hdr.first_part_size)

\* C30 as stated: for every header whose macroblock data start lies inside
\* the control partition, aligned byte offset + mb_size = first_part_offset +
\* first_part_size, with no 32-bit wrap-around.
CtrlLenCompensates ==
    (hw_cfg # NONE /\ MbStartInside(frame_hdr))
        => EndsAtPartitionEnd(frame_hdr, hw_cfg)

\* C30, amended: the same for every such header whose first_part_size is at
\* most 2^32 - 8; for a larger first_part_size the length can wrap around.
CtrlLenCompensatesBounded ==
    (/\ hw_cfg # NONE
     /\ MbStartInside(frame_hdr)
     /\ Le32(frame_hdr.first_part_size, <<Limb - 1, Limb - 8>>))
        => EndsAtPartitionEnd(frame_hdr, hw_cfg)

\* a header whose data start is inside the partition and not at a multiple of
\* 8: the alignment discards bytes and the length counts them
CtrlLenCompensatesBounded_witness ==
    /\ hw_cfg # NONE
    /\ MbStartInside(frame_hdr)
    /\ Le32(frame_hdr.first_part_size, <<Limb - 1, Limb - 8>>)
    /\ AlignRest(mb_offset_bytes(frame_hdr)) # U32(0)
    /\ frame_hdr.first_part_size # U32(0)
    /\ hw_cfg.stream1_len # frame_hdr.first_part_size

(* -------------------------------- C31 ---------------------------------- *)
\* the sum of dct_part_sizes[j] for j < i
RECURSIVE DctSizesBelow(_, _)
DctSizesBelow(hdr, i) ==
    IF i = 0 THEN U32(0)
    ELSE Add32(DctSizesBelow(hdr, i - 1), hdr.dct_part_sizes[i - 1])

\* first_part_offset + first_part_size + 3 * (num_dct_parts - 1) + the sizes
\* of the partitions before partition i
DctByteOffset(hdr, i) ==
    Add32(Add32(Add32(hdr.first_part_offset, hdr.first_part_size),
                U32(3 * (hdr.num_dct_parts - 1))),
          DctSizesBelow(hdr, i))

\* the start-bit offset of every DCT partition is a multiple of 8 in [0, 56]
DctStartBitsInRange ==
    hw_cfg # NONE =>
        \A i \in DOMAIN hw_cfg.strm_start_bit :
            /\ hw_cfg.strm_start_bit[i][1] = 0
            /\ hw_cfg.strm_start_bit[i][2] \in {0, 8, 16, 24, 32, 40, 48, 56}

\* base address + start bit / 8 is the device address of partition i
DctAddressExact(i) ==
    Add32(hw_cfg.addr_str[i], Div32(hw_cfg.strm_start_bit[i], 8))
        = Add32(frame_hdr.src_dma, DctByteOffset(frame_hdr, i))

\* C31: for every DCT partition i < num_dct_parts the programmed base
\* address plus the programmed start-bit offset divided by 8 is src_dma +
\* byte_offset_i, and the start-bit offset is a multiple of 8 in [0, 56],
\* for every src_dma, 8-byte aligned or not.
DctAddressesExact ==
    /\ DctStartBitsInRange
    /\ hw_cfg # NONE =>
          \A i \in 0..(frame_hdr.num_dct_parts - 1) : DctAddressExact(i)

\* the same for source buffers whose device address is a multiple of 8
DctAddressesExactDma ==
    Aligned8(frame_hdr.src_dma) => DctAddressesExact

(* -------------------------------- C32 ---------------------------------- *)
\* C32: rockchip_vp8d_cfg_parts reads only dct_part_sizes[0 .. num_dct_parts
\* - 1] and writes, besides the fixed control and length slots, only the
\* address slots VDPU_REG_ADDR_STR + i and the start-bit slots
\* VDPU_REG_DEC_CTRL2_STRM_START_BIT + i with i < num_dct_parts; for
\* num_dct_parts in {1, 2, 4, 8} every such index is below 8.
PartsAccessBounded ==
    hw_cfg # NONE =>
        /\ hw_cfg.reads = 0..(frame_hdr.num_dct_parts - 1)
        /\ hw_cfg.writes \ FixedPartSlots =
              {Slot(name, i) : name \in {"VDPU_REG_ADDR_STR",
                                         "VDPU_REG_DEC_CTRL2_STRM_START_BIT"},
                               i \in 0..(frame_hdr.num_dct_parts - 1)}
        /\ \A w \in hw_cfg.writes : w[2] < 8

\* a header of 8 partitions has been programmed up to its last partition
PartsAccessBounded_witness ==
    /\ hw_cfg # NONE
    /\ frame_hdr.num_dct_parts = 8
    /\ Slot("VDPU_REG_ADDR_STR", 7) \in hw_cfg.writes
    /\ 7 \in hw_cfg.reads

(* -------------------------------- C33 ---------------------------------- *)
\* the slots name + i that have been written
WrittenOf(name) == {sl \in DOMAIN hw_cfg.regs : sl[1] = name}

\* the mode of the segmentation of the header
SegOff == ~frame_hdr.sgmnt_enabled
SegAbsolute == frame_hdr.sgmnt_enabled /\ frame_hdr.segment_feature_mode # 0
SegDelta == frame_hdr.sgmnt_enabled /\ frame_hdr.segment_feature_mode = 0

\* C33: without segmentation only loop-filter level slot 0 is written, with
\* the level of the frame; in absolute mode the four slots hold the four
\* per-segment values; in delta mode slot i holds clamp(level + delta[i], 0,
\* 63) of the signed sum, a value in [0, 63].
LfLevels ==
    (hw_cfg # NONE /\ hw_cfg.fn = "cfg_lf") =>
        LET lvl(i) == hw_cfg.regs[Slot("VDPU_REG_REF_PIC_LF_LEVEL_0", i)]
            all == {Slot("VDPU_REG_REF_PIC_LF_LEVEL_0", i) : i \in 0..3}
        IN /\ SegOff =>
                /\ WrittenOf("VDPU_REG_REF_PIC_LF_LEVEL_0")
                      = {Slot("VDPU_REG_REF_PIC_LF_LEVEL_0", 0)}
                /\ lvl(0) = <<0, frame_hdr.level>>
           /\ SegAbsolute =>
                /\ WrittenOf("VDPU_REG_REF_PIC_LF_LEVEL_0") = all
                /\ \A i \in 0..3 :
                      lvl(i) = IF frame_hdr.lf_update[i] >= 0
                               THEN <<0, frame_hdr.lf_update[i]>>
                               ELSE <<Limb - 1, Limb + frame_hdr.lf_update[i]>>
           /\ SegDelta =>
                /\ WrittenOf("VDPU_REG_REF_PIC_LF_LEVEL_0") = all
                /\ \A i \in 0..3 :
                      LET sum == frame_hdr.level + frame_hdr.lf_update[i]
                      IN /\ lvl(i)[1] = 0
                         /\ lvl(i)[2] \in 0..63
                         /\ sum < 0 => lvl(i)[2] = 0
                         /\ sum > 63 => lvl(i)[2] = 63
                         /\ sum \in 0..63 => lvl(i)[2] = sum

\* a delta-mode header whose sums fall below 0, inside and above 63
LfLevels_witness ==
    /\ hw_cfg # NONE /\ hw_cfg.fn = "cfg_lf"
    /\ SegDelta
    /\ frame_hdr.level + frame_hdr.lf_update[0] < 0
    /\ frame_hdr.level + frame_hdr.lf_update[1] \in 1..62
    /\ frame_hdr.level + frame_hdr.lf_update[2] > 63

(* -------------------------------- C34 ---------------------------------- *)
\* C34: without segmentation only quantizer slot 0 is written, with the luma
\* AC index of the frame; in absolute mode the four slots hold the four
\* per-segment indices; in delta mode slot i holds clamp(y_ac_qi + delta[i],
\* 0, 127); the five delta registers (Y DC, Y2 DC, Y2 AC, UV DC, UV AC) are
\* written with the header's values in every mode.
QuantIndices ==
    (hw_cfg # NONE /\ hw_cfg.fn = "cfg_qp") =>
        LET qi(i) == hw_cfg.regs[Slot("VDPU_REG_REF_PIC_QUANT_0", i)]
            all == {Slot("VDPU_REG_REF_PIC_QUANT_0", i) : i \in 0..3}
            signed(v) == IF v >= 0 THEN <<0, v>> ELSE <<Limb - 1, Limb + v>>
        IN /\ SegOff =>
                /\ WrittenOf("VDPU_REG_REF_PIC_QUANT_0")
                      = {Slot("VDPU_REG_REF_PIC_QUANT_0", 0)}
                /\ qi(0) = <<0, frame_hdr.y_ac_qi>>
           /\ SegAbsolute =>
                /\ WrittenOf("VDPU_REG_REF_PIC_QUANT_0") = all
                /\ \A i \in 0..3 : qi(i) = signed(frame_hdr.quant_update[i])
           /\ SegDelta =>
                /\ WrittenOf("VDPU_REG_REF_PIC_QUANT_0") = all
                /\ \A i \in 0..3 :
                      LET sum == frame_hdr.y_ac_qi + frame_hdr.quant_update[i]
                      IN /\ qi(i)[1] = 0
                         /\ qi(i)[2] \in 0..127
                         /\ sum < 0 => qi(i)[2] = 0
                         /\ sum > 127 => qi(i)[2] = 127
                         /\ sum \in 0..127 => qi(i)[2] = sum
           /\ WrittenOf("VDPU_REG_REF_PIC_QUANT_DELTA_0")
                 = {Slot("VDPU_REG_REF_PIC_QUANT_DELTA_0", i) : i \in 0..4}
           /\ \A i \in 0..4 :
                 hw_cfg.regs[Slot("VDPU_REG_REF_PIC_QUANT_DELTA_0", i)]
                    = signed(frame_hdr.quant_delta[i])

\* a delta-mode header whose sums fall below 0, inside and above 127, with
\* delta registers that are not 0
QuantIndices_witness ==
    /\ hw_cfg # NONE /\ hw_cfg.fn = "cfg_qp"
    /\ SegDelta
    /\ frame_hdr.y_ac_qi + frame_hdr.quant_update[0] < 0
    /\ frame_hdr.y_ac_qi + frame_hdr.quant_update[1] \in 1..126
    /\ frame_hdr.y_ac_qi + frame_hdr.quant_update[2] > 127
    /\ frame_hdr.quant_delta[0] < 0

(* -------------------------------- C35 ---------------------------------- *)
\* the address the claim gives for a reference index: the output buffer at
\* the index when the index is below the number of output buffers, the
\* Job's own output buffer otherwise
RefAddressOf(index) ==
    IF index < frame_hdr.num_buffers
    THEN DstDma(index)
    ELSE DstDma(frame_hdr.run_dst)

GoldenAltAddresses ==
    /\ hw_cfg.regs[Slot("VDPU_REG_VP8_ADDR_REF2_5_0", 0)]
          = RefAddressOf(frame_hdr.golden_frame)
    /\ hw_cfg.regs[Slot("VDPU_REG_VP8_ADDR_REF2_5_1", 0)]
          = RefAddressOf(frame_hdr.alt_frame)

\* C35 as stated: the last, golden and alt-ref addresses are each the
\* address of the output buffer at the header's index, or of the Job's own
\* output buffer when the index is out of range, whatever key_frame is.
RefAddresses ==
    hw_cfg # NONE =>
        /\ hw_cfg.regs[Slot("VDPU_REG_VP8_ADDR_REF0", 0)]
              = RefAddressOf(frame_hdr.last_frame)
        /\ GoldenAltAddresses

\* C35, amended: the golden and alt-ref addresses are as stated for every
\* frame; the last-frame address is as stated when hdr->key_frame is not 0,
\* and is the address of the Job's own output buffer when hdr->key_frame
\* is 0, whatever last_frame is.
RefAddressesByFrameType ==
    hw_cfg # NONE =>
        /\ GoldenAltAddresses
        /\ hw_cfg.regs[Slot("VDPU_REG_VP8_ADDR_REF0", 0)]
              = IF frame_hdr.key_frame = 0
                THEN DstDma(frame_hdr.run_dst)
                ELSE RefAddressOf(frame_hdr.last_frame)

\* key_frame is 0 and the three indices name buffers other than the Job's
\* own: the golden and alt-ref addresses are theirs, the last-frame address
\* is the Job's own
RefAddressesByFrameType_witness ==
    /\ hw_cfg # NONE
    /\ frame_hdr.key_frame = 0
    /\ frame_hdr.last_frame < frame_hdr.num_buffers
    /\ frame_hdr.last_frame # frame_hdr.run_dst
    /\ frame_hdr.golden_frame < frame_hdr.num_buffers
    /\ frame_hdr.golden_frame # frame_hdr.run_dst
    /\ frame_hdr.alt_frame >= frame_hdr.num_buffers
    /\ hw_cfg.regs[Slot("VDPU_REG_VP8_ADDR_REF0", 0)] = DstDma(frame_hdr.run_dst)
    /\ hw_cfg.regs[Slot("VDPU_REG_VP8_ADDR_REF2_5_0", 0)]
          = DstDma(frame_hdr.golden_frame)

(* -------------------------------- C36 ---------------------------------- *)
\* the tap slots whose register mapping has a non-zero base address
MappedTaps ==
    {Slot("VDPU_REG_PRED_FLT_NONE_0", k) :
        k \in {n \in 0..47 : frame_hdr.tap_base[n] # 0}}

\* C36: the six-tap filter coefficients are written exactly when the low two
\* bits of the frame version are 0, and then into exactly the tap slots whose
\* register mapping has a non-zero base address, slot 6 * i + j receiving
\* vp8d_mc_filter[i][j]; otherwise no tap slot is written.
TapsProgrammed ==
    hw_cfg # NONE =>
        /\ frame_hdr.version % 4 # 0 => DOMAIN hw_cfg.regs = {}
        /\ frame_hdr.version % 4 = 0 =>
              /\ DOMAIN hw_cfg.regs = MappedTaps
              /\ \A k \in 0..47 :
                    frame_hdr.tap_base[k] # 0 =>
                       LET coeff == vp8d_mc_filter[k \div 6][k % 6]
                       IN hw_cfg.regs[Slot("VDPU_REG_PRED_FLT_NONE_0", k)]
                             = IF coeff >= 0 THEN <<0, coeff>>
                               ELSE <<Limb - 1, Limb + coeff>>

\* a frame of version 4 on a variant that has some tap registers and lacks
\* others: the coefficients are written to the registers it has
TapsProgrammed_witness ==
    /\ hw_cfg # NONE
    /\ frame_hdr.version = 4
    /\ frame_hdr.tap_base[0] = 0
    /\ frame_hdr.tap_base[7] # 0
    /\ Slot("VDPU_REG_PRED_FLT_NONE_0", 7) \in DOMAIN hw_cfg.regs
    /\ Slot("VDPU_REG_PRED_FLT_NONE_0", 0) \notin DOMAIN hw_cfg.regs

(* -------------------------------- C37 ---------------------------------- *)
\* the header bytes of the frame-level and of the intra mode probabilities,
\* in the order of the packed table
FrameLevelProbs ==
    <<Src("prob_skip_false", 0, 0, 0, 0), Src("prob_intra", 0, 0, 0, 0),
      Src("prob_last", 0, 0, 0, 0), Src("prob_gf", 0, 0, 0, 0),
      Src("segment_probs", 0, 0, 0, 0), Src("segment_probs", 1, 0, 0, 0),
      Src("segment_probs", 2, 0, 0, 0)>>
IntraModeProbs ==
    <<Src("y_mode_probs", 0, 0, 0, 0), Src("y_mode_probs", 1, 0, 0, 0),
      Src("y_mode_probs", 2, 0, 0, 0), Src("y_mode_probs", 3, 0, 0, 0),
      Src("uv_mode_probs", 0, 0, 0, 0), Src("uv_mode_probs", 1, 0, 0, 0),
      Src("uv_mode_probs", 2, 0, 0, 0)>>

\* the bytes first..last of the table hold the probabilities probs in order,
\* followed by zero padding
BlockHolds(first, last, probs) ==
    \A o \in first..last :
        hw_cfg.prob_tbl[o] = IF o - first < Len(probs)
                             THEN frame_hdr[probs[o - first + 1]]
                             ELSE 0

\* the lowest offset of the table that holds a motion-vector probability
MvProbsStart ==
    CHOOSE o \in 0..(ProbTblSize - 1) :
        /\ prob_tbl_layout[o][1] = "mv_probs"
        /\ \A b \in 0..(o - 1) : prob_tbl_layout[b][1] # "mv_probs"

\* C37 as stated: the frame-level probabilities occupy bytes 0-7 of the
\* packed table, the intra mode probabilities the two 8-byte blocks of bytes
\* 8-23, and the motion-vector probabilities start after them, at byte 24.
ProbBlocksTwoModeBlocks ==
    hw_cfg # NONE =>
        /\ BlockHolds(0, 7, FrameLevelProbs)
        /\ BlockHolds(8, 23, IntraModeProbs)
        /\ MvProbsStart = 24

\* C37, amended: the frame-level probabilities occupy bytes 0-7 of the packed
\* table, the intra mode probabilities the one 8-byte block of bytes 8-15
\* (four luma, three chroma, one byte of padding), and the motion-vector
\* probabilities start at byte 16 with mv_probs[0][0].
ProbBlocks ==
    hw_cfg # NONE =>
        /\ BlockHolds(0, 7, FrameLevelProbs)
        /\ BlockHolds(8, 15, IntraModeProbs)
        /\ MvProbsStart = 16
        /\ hw_cfg.prob_tbl[16] = frame_hdr[MvProb(0, 0)]

\* a packed table whose bytes 7, 8, 14 and 16 differ from padding and from
\* each other where they come from different header bytes
ProbBlocks_witness ==
    /\ hw_cfg # NONE
    /\ hw_cfg.prob_tbl[7] = 0
    /\ hw_cfg.prob_tbl[15] = 0
    /\ hw_cfg.prob_tbl[8] = frame_hdr[Src("y_mode_probs", 0, 0, 0, 0)]
    /\ hw_cfg.prob_tbl[16] = frame_hdr[MvProb(0, 0)]
    /\ hw_cfg.prob_tbl[16] # 0
    /\ hw_cfg.prob_tbl[8] # 0
    /\ hw_cfg.prob_tbl[16] # hw_cfg.prob_tbl[8]
    /\ hw_cfg.prob_tbl[14] # hw_cfg.prob_tbl[16]

(* -------------------------------- C38 ---------------------------------- *)
\* what the segmentation map of the Session holds
SegmentMap == hw_cfg.heap[hw_cfg.segment_map.cpu]

\* the run hook has returned and the engine has not yet touched the Job
RunReturned == hw_cfg.fn = "run" /\ hw_cfg.engine

\* C38: the segmentation map is all zero when codec init has returned 0; when
\* the run hook returns it is all zero if the frame of the Job is a key frame
\* (hdr->key_frame is 0) and holds what it held when the hook was entered
\* otherwise; the hook leaves the handle of the map as it was.
SegmentMapReset ==
    /\ hw_cfg.fn = "init" /\ hw_cfg.ret = "0" => SegmentMap = "zero"
    /\ RunReturned =>
          /\ hw_cfg.segment_map = hw_cfg.before.segment_map
          /\ SegmentMap = IF frame_hdr.key_frame = 0 THEN "zero"
                          ELSE hw_cfg.before.heap[hw_cfg.segment_map.cpu]

\* the engine has stored a map for an earlier Job and the next Job of the
\* Session is a key frame: its run hook has zeroed the map
SegmentMapReset_witness ==
    /\ RunReturned
    /\ frame_hdr.key_frame = 0
    /\ hw_cfg.before.heap[hw_cfg.segment_map.cpu] = "map"
    /\ SegmentMap = "zero"

(* -------------------------------- C39 ---------------------------------- *)
\* the exit hook has freed both handles, and both were already cleared when
\* it was entered: each free was a repeated free of its handle
FreedAgain ==
    /\ hw_cfg.fn = "exit"
    /\ hw_cfg.before.segment_map = ClearedBuf
    /\ hw_cfg.before.prob_tbl = ClearedBuf

\* the blocks that dma_free_coherent was given, in the order of the calls
ReleasedBlocks ==
    [n \in 1..Len(hw_cfg.released) |-> hw_cfg.released[n][2]]

\* C39: after rockchip_vpu_aux_buf_free the handle has CPU pointer NULL,
\* device address 0 and size 0; a free of a handle that is already cleared
\* leaves it cleared, passes the NULL pointer to the allocator and returns no
\* block to the pool; no block is ever released twice.
FreeIdempotent ==
    /\ hw_cfg.fn = "exit" =>
          /\ hw_cfg.segment_map = ClearedBuf
          /\ hw_cfg.prob_tbl = ClearedBuf
          /\ \A b \in DOMAIN hw_cfg.before.heap :
                b \in DOMAIN hw_cfg.heap
                   <=> b \notin {hw_cfg.before.segment_map.cpu,
                                 hw_cfg.before.prob_tbl.cpu}
    /\ FreedAgain =>
          /\ hw_cfg.heap = hw_cfg.before.heap
          /\ ReleasedBlocks[Len(ReleasedBlocks)] = 0
          /\ ReleasedBlocks[Len(ReleasedBlocks) - 1] = 0
    /\ \A i, j \in DOMAIN ReleasedBlocks :
          i # j /\ ReleasedBlocks[i] # 0 => ReleasedBlocks[i] # ReleasedBlocks[j]

\* both scratch buffers were allocated and freed, and the exit hook has run
\* once more on the cleared handles
FreeIdempotent_witness ==
    /\ FreedAgain
    /\ Len(ReleasedBlocks) = 4
    /\ ReleasedBlocks[1] # 0
    /\ ReleasedBlocks[2] # 0
    /\ hw_cfg.heap = << >>

(* -------------------------------- C40 ---------------------------------- *)
\* codec init has returned
InitReturned == hw_cfg.fn = "init"

\* the handle buf holds a live block of the given size
Allocated(buf, size) ==
    /\ hw_cfg[buf].cpu # 0
    /\ hw_cfg[buf].cpu \in DOMAIN hw_cfg.heap
    /\ hw_cfg[buf].dma = DmaOf(hw_cfg[buf].cpu)
    /\ hw_cfg[buf].size = size

\* the allocations that init made
InitAllocs == hw_cfg.allocs - hw_cfg.before.allocs

\* C40: rockchip_vpu_vp8d_init returns 0 with the segmentation map and the
\* probability table both allocated, or an error with neither allocated and
\* every block it took handed back: -EPERM on an unknown hardware variant,
\* before any allocation; -ENOMEM when the segmentation map cannot be
\* allocated; and, when the probability table cannot be allocated, -ENOMEM
\* after the segmentation map just allocated was freed.
InitAllOrNothing ==
    InitReturned =>
        /\ hw_cfg.ret \in {"0", "-EPERM", "-ENOMEM"}
        /\ hw_cfg.ret = "0" =>
              /\ Allocated("segment_map", segment_map_size(frame_hdr))
              /\ Allocated("prob_tbl", ProbTblSize)
              /\ hw_cfg.segment_map.cpu # hw_cfg.prob_tbl.cpu
              /\ InitAllocs = 2
              /\ hw_cfg.released = hw_cfg.before.released
        /\ hw_cfg.ret # "0" =>
              /\ hw_cfg.segment_map.cpu = 0
              /\ hw_cfg.prob_tbl.cpu = 0
              /\ hw_cfg.heap = hw_cfg.before.heap
        /\ hw_cfg.ret = "-EPERM"
              <=> frame_hdr.vpu_type \notin {"RK3229_VPU", "RK3288_VPU"}
        /\ hw_cfg.ret = "-EPERM" =>
              /\ InitAllocs = 0
              /\ hw_cfg.released = hw_cfg.before.released
        /\ hw_cfg.ret = "-ENOMEM" =>
              \/ /\ InitAllocs = 0
                 /\ hw_cfg.released = hw_cfg.before.released
              \/ /\ InitAllocs = 1
                 /\ hw_cfg.released =
                       Append(hw_cfg.before.released,
                              <<segment_map_size(frame_hdr), hw_cfg.allocs,
                                DmaOf(hw_cfg.allocs)>>)

\* the probability table could not be allocated: init has returned -ENOMEM
\* and the segmentation map it had allocated is back in the pool
InitAllOrNothing_witness ==
    /\ InitReturned
    /\ hw_cfg.ret = "-ENOMEM"
    /\ InitAllocs = 1
    /\ Len(hw_cfg.released) = Len(hw_cfg.before.released) + 1
    /\ hw_cfg.heap = << >>
    /\ hw_cfg.segment_map = ClearedBuf

=============================================================================
